---- MODULE Spec2Model ----
(***************************************************************************)
(* A model of the pmlutils analyzer package: the queries and reports of     *)
(* AuditAnalyzer, DartCodeAnalyzer and SchemaDocAnalyzer over the          *)
(* relational store, the configuration resolver AnalyzerConfig, the        *)
(* documentation extractor DocAnalyzer and the page of MermaidRenderer.    *)
(*                                                                         *)
(* SQL NULL, Python None and a float NaN are all written Null; a value v   *)
(* of a nullable column is written <<v>>.  Text is compared as SQLite's    *)
(* BINARY collation compares it (byte order), through Collation.           *)
(***************************************************************************)
EXTENDS Integers, Sequences, FiniteSets, Bags, TLC

\* ------------------------------------------------------------------ bounds
MaxMethods == 2
MaxClasses == 3
MaxRefs == 2
MaxConns == 1
MaxLen == 6
MaxVisits == 1
MaxScans == 2
MaxDocs == 3
MaxSheets == 2
MaxRenders == 2

VARIABLES
    classes,                  \* table classes: class_id = index, [file_id, class_name]
    class_methods,            \* table class_methods: method_id = index
    class_usage_references,   \* table class_usage_references: a bag of referenced_class_id
    method_usage_references,  \* table method_usage_references: a bag of referenced_method_id
    result,                   \* what the analyzer call that has just returned gave its caller
                              \* (and, under stats, the counts analyze_class_hierarchy logged,
                              \* under steps, the steps run_all_analyses started)
    openConns,                \* sqlite3 connections opened by the analyzers and not closed
    trail,                    \* the failure the last analyzer call met (fault) and the error
                              \* messages its loggers recorded, in order (errors)
    lastRun,                  \* the class ids of the last analyze_unused_classes result (ids), what
                              \* was inserted since (since) and between it and the result before (between)
    pml,                      \* the configuration document pml.yaml
    config,                   \* the AnalyzerConfig instance: field -> value, Null before construction
    configState,              \* "unbuilt", "loaded" (the try block ended) or "defaulted" (the except ran)
    lib_path,                 \* DocAnalyzer.lib_path: config.lib_dir as written
    excluded_dirs,            \* config.excluded_dirs
    excluded_files,           \* config.excluded_files
    files,                    \* the files under the source root: path -> [readable, content]
    docs,                     \* DocAnalyzer.docs
    visited,                  \* the paths process_file has been called with, in order
    lastDoc,                  \* what extract_claude_doc returned last, in <<...>>; <<>> before any call
    scans,                    \* the scan_directory calls made
    summary,                  \* the document generate_summary returned last, Null before any
    dataframes,               \* the mapping passed to export_to_excel: <<[name, frame], ...>>
    artifact,                 \* the files of the output directories: file name -> content
    render                    \* MermaidRenderer.render: the call's position, its title, the
                              \* page file and the open-requests sent to the browser

auditVars == <<classes, class_methods, class_usage_references,
               method_usage_references, result, openConns, trail, lastRun>>

configVars == <<pml, config, configState>>

docVars == <<lib_path, excluded_dirs, excluded_files, files, docs, visited, lastDoc, scans,
             summary>>

outVars == <<dataframes, artifact, render>>

vars == <<auditVars, configVars, docVars, outVars>>

Null == <<>>

\* ---------------------------------------------------------- the store
\* Byte order of the text values the model draws from.
Collation == <<"A", "B", "a.dart", "b.dart", "build", "createState",
               "dispose", "initState", "run", "stop">>

StrRank(s) == CHOOSE i \in 1..Len(Collation) : Collation[i] = s

\* source_files: file_id -> file_path.
FilePath == <<"a.dart", "b.dart">>

\* Three classes: two in one file, and one in a later file with an earlier name; a
\* widget, a framework class and a plain class (widget_type and framework_type are
\* nullable).
ThreeClasses ==
    << [file_id |-> 1, class_name |-> "A", widget_type |-> <<"StatelessWidget">>,
        framework_type |-> Null],
       [file_id |-> 1, class_name |-> "B", widget_type |-> Null,
        framework_type |-> <<"flutter">>],
       [file_id |-> 2, class_name |-> "A", widget_type |-> Null,
        framework_type |-> Null] >>

MethodRow(c, n, a, x) ==
    [class_id |-> c, method_name |-> n, has_annotation |-> a, cyclomatic_complexity |-> x]

NoResult == [op |-> "none", status |-> "none", rows |-> <<>>]
NoRun == [ids |-> Null, since |-> <<>>, between |-> Null]
NoTrail == [fault |-> "none", errors |-> <<>>]

\* What has changed in classes and class_usage_references since the last
\* analyze_unused_classes result: nothing (<<>>), one usage row of class c (<<c>>), or
\* more than that (<<0>>).
Logged(ev) ==
    IF lastRun.ids = Null THEN lastRun
    ELSE [lastRun EXCEPT !.since = IF @ = <<>> THEN <<ev>> ELSE <<0>>]

\* The external analysis step inserts a classes row.
InsertClass(row) ==
    /\ Len(classes) < MaxClasses
    /\ classes' = Append(classes, row)
    /\ result' = NoResult
    /\ trail' = NoTrail
    /\ lastRun' = Logged(0)
    /\ UNCHANGED <<class_methods, class_usage_references, method_usage_references, openConns>>

\* The external analysis step inserts a class_methods row of an existing class.
InsertMethod(row) ==
    /\ Len(class_methods) < MaxMethods
    /\ row.class_id \in 1..Len(classes)
    /\ class_methods' = Append(class_methods, row)
    /\ result' = NoResult
    /\ trail' = NoTrail
    /\ UNCHANGED <<classes, class_usage_references, method_usage_references, openConns, lastRun>>

\* The external analysis step records one more reference to class c.
InsertClassUsage(c) ==
    /\ c \in 1..Len(classes)
    /\ BagCardinality(class_usage_references) < MaxRefs
    /\ class_usage_references' = class_usage_references (+) SetToBag({c})
    /\ result' = NoResult
    /\ trail' = NoTrail
    /\ lastRun' = Logged(c)
    /\ UNCHANGED <<classes, class_methods, method_usage_references, openConns>>

\* The external analysis step records one more reference to method m.
InsertMethodUsage(m) ==
    /\ m \in 1..Len(class_methods)
    /\ BagCardinality(method_usage_references) < MaxRefs
    /\ method_usage_references' = method_usage_references (+) SetToBag({m})
    /\ result' = NoResult
    /\ trail' = NoTrail
    /\ UNCHANGED <<classes, class_methods, class_usage_references, openConns, lastRun>>

\* ------------------------------------------------------- connections
\* What a database access can meet.
Outcomes == {"ok", "connect_error", "query_error"}

\* `with self._connect_db() as conn:` commits or rolls back on exit and leaves the
\* connection open; only the finalizer of the unreferenced object closes it.  gc says
\* whether that finalizer has already run when the call ends.
ConnsAfter(outcome, gc) ==
    IF outcome = "connect_error" \/ (outcome = "ok" /\ gc)
    THEN openConns
    ELSE openConns + 1

\* The garbage collector finalizes an unreferenced connection.
Finalize ==
    /\ openConns > 0
    /\ openConns' = openConns - 1
    /\ UNCHANGED <<classes, class_methods, class_usage_references,
                   method_usage_references, result, trail, lastRun>>

\* The logger of each analyzer class, and the classes whose _connect_db logs a failed
\* sqlite3.connect before it raises again (DartCodeAnalyzer.connect logs nothing).
ConnectLoggers == {"AuditAnalyzer", "SchemaDocAnalyzer"}

ErrorRecord(logger, message) == [logger |-> logger, level |-> "ERROR", message |-> message]

ConnectLog(logger, outcome) ==
    IF outcome = "connect_error" /\ logger \in ConnectLoggers
    THEN <<ErrorRecord(logger, "Database connection error")>>
    ELSE <<>>

QueryTrail_Silent(logger, message, outcome) ==
    [fault |-> outcome, errors |-> ConnectLog(logger, outcome)]

\* try: with connect() as conn: read_sql_query ... except Exception as e:
\* self.logger.error(message); raise
QueryTrail(logger, message, outcome) ==
    [fault |-> outcome,
     errors |-> IF outcome = "ok" THEN <<>>
                ELSE ConnectLog(logger, outcome) \o <<ErrorRecord(logger, message)>>]

\* ------------------------------------------------ analyze_unused_methods
LifecycleMethods == {"build", "initState", "dispose", "createState"}

Ids(n) == [i \in 1..n |-> i]

\* FROM class_methods m JOIN classes c JOIN source_files sf: one row per method whose
\* class and file exist.  method_id is kept to name the row's method.
MethodJoinRow(m) ==
    LET r == class_methods[m]
        c == classes[r.class_id]
    IN  [method_id |-> m,
         file_name |-> FilePath[c.file_id],
         class_name |-> c.class_name,
         method_name |-> r.method_name,
         cyclomatic_complexity |-> r.cyclomatic_complexity]

MethodJoins(m) ==
    /\ class_methods[m].class_id \in 1..Len(classes)
    /\ classes[class_methods[m].class_id].file_id \in DOMAIN FilePath

UnusedMethodWhere_IgnoresAnnotation(m) ==
    /\ CopiesIn(m, method_usage_references) = 0
    /\ class_methods[m].method_name \notin LifecycleMethods

UnusedMethodWhere(m) ==
    /\ CopiesIn(m, method_usage_references) = 0
    /\ class_methods[m].method_name \notin LifecycleMethods
    /\ class_methods[m].has_annotation = 0

MethodOrderBefore_ClassFirst(r1, r2) ==
    \/ r1.cyclomatic_complexity > r2.cyclomatic_complexity
    \/ /\ r1.cyclomatic_complexity = r2.cyclomatic_complexity
       /\ \/ StrRank(r1.class_name) < StrRank(r2.class_name)
          \/ /\ r1.class_name = r2.class_name
             /\ \/ StrRank(r1.file_name) < StrRank(r2.file_name)
                \/ /\ r1.file_name = r2.file_name
                   /\ StrRank(r1.method_name) < StrRank(r2.method_name)

\* ORDER BY m.cyclomatic_complexity DESC, sf.file_path, c.class_name, m.method_name:
\* r1 sorts strictly before r2.
MethodOrderBefore(r1, r2) ==
    \/ r1.cyclomatic_complexity > r2.cyclomatic_complexity
    \/ /\ r1.cyclomatic_complexity = r2.cyclomatic_complexity
       /\ \/ StrRank(r1.file_name) < StrRank(r2.file_name)
          \/ /\ r1.file_name = r2.file_name
             /\ \/ StrRank(r1.class_name) < StrRank(r2.class_name)
                \/ /\ r1.class_name = r2.class_name
                   /\ StrRank(r1.method_name) < StrRank(r2.method_name)

\* The sorter: rows that tie on every key keep their scan order.
SortMethodRows(rows) ==
    LET n == Len(rows)
        pos(i) == 1 + Cardinality({j \in 1..n :
                        \/ MethodOrderBefore(rows[j], rows[i])
                        \/ (~MethodOrderBefore(rows[i], rows[j]) /\ j < i)})
    IN  [k \in 1..n |-> rows[CHOOSE i \in 1..n : pos(i) = k]]

UnusedMethodsQuery ==
    LET ids == SelectSeq(Ids(Len(class_methods)),
                         LAMBDA m : MethodJoins(m) /\ UnusedMethodWhere(m))
    IN  SortMethodRows([k \in 1..Len(ids) |-> MethodJoinRow(ids[k])])

AnalyzeUnusedMethods ==
    \E outcome \in Outcomes, gc \in BOOLEAN :
        /\ ConnsAfter(outcome, gc) <= MaxConns
        /\ openConns' = ConnsAfter(outcome, gc)
        /\ result' = IF outcome = "ok"
                     THEN [op |-> "analyze_unused_methods", status |-> "ok",
                           rows |-> UnusedMethodsQuery]
                     ELSE [op |-> "analyze_unused_methods", status |-> "error",
                           rows |-> <<>>]
        /\ trail' = QueryTrail("AuditAnalyzer", "Error analyzing unused methods", outcome)
        /\ UNCHANGED <<classes, class_methods, class_usage_references,
                       method_usage_references, lastRun>>

\* ------------------------------------------------ analyze_unused_classes
MethodsOf(c) == {m \in 1..Len(class_methods) : class_methods[m].class_id = c}

RECURSIVE SumComplexity(_)
SumComplexity(ms) ==
    IF ms = {} THEN 0
    ELSE LET m == CHOOSE x \in ms : TRUE
         IN  class_methods[m].cyclomatic_complexity + SumComplexity(ms \ {m})

\* AVG over the class's methods, as the fraction <<sum, count>>; NULL without methods.
AvgComplexity(c) ==
    IF MethodsOf(c) = {} THEN Null
    ELSE <<SumComplexity(MethodsOf(c)), Cardinality(MethodsOf(c))>>

\* class_id is kept to name the row's class.
ClassJoinRow(c) ==
    [class_id |-> c,
     file_name |-> FilePath[classes[c].file_id],
     class_name |-> classes[c].class_name,
     method_count |-> Cardinality(MethodsOf(c)),
     avg_complexity |-> AvgComplexity(c)]

ClassJoins(c) == classes[c].file_id \in DOMAIN FilePath

UnusedClassWhere_AnyReference(c) == BagCardinality(class_usage_references) = 0

UnusedClassWhere(c) == CopiesIn(c, class_usage_references) = 0

\* ORDER BY sf.file_path, c.class_name: r1 sorts strictly before r2.
ClassOrderBefore(r1, r2) ==
    \/ StrRank(r1.file_name) < StrRank(r2.file_name)
    \/ /\ r1.file_name = r2.file_name
       /\ StrRank(r1.class_name) < StrRank(r2.class_name)

SortClassRows(rows) ==
    LET n == Len(rows)
        pos(i) == 1 + Cardinality({j \in 1..n :
                        \/ ClassOrderBefore(rows[j], rows[i])
                        \/ (~ClassOrderBefore(rows[i], rows[j]) /\ j < i)})
    IN  [k \in 1..n |-> rows[CHOOSE i \in 1..n : pos(i) = k]]

UnusedClassesQuery ==
    LET ids == SelectSeq(Ids(Len(classes)),
                         LAMBDA c : ClassJoins(c) /\ UnusedClassWhere(c))
    IN  SortClassRows([k \in 1..Len(ids) |-> ClassJoinRow(ids[k])])

RowIds(rows) == {rows[k].class_id : k \in 1..Len(rows)}

\* The bookkeeping of a result of analyze_unused_classes.
ClassesRun ==
    [ids |-> <<RowIds(UnusedClassesQuery)>>, since |-> <<>>,
     between |-> IF lastRun.ids = Null THEN Null ELSE <<lastRun.since>>]

AnalyzeUnusedClasses ==
    \E outcome \in Outcomes, gc \in BOOLEAN :
        /\ ConnsAfter(outcome, gc) <= MaxConns
        /\ openConns' = ConnsAfter(outcome, gc)
        /\ result' = IF outcome = "ok"
                     THEN [op |-> "analyze_unused_classes", status |-> "ok",
                           rows |-> UnusedClassesQuery]
                     ELSE [op |-> "analyze_unused_classes", status |-> "error",
                           rows |-> <<>>]
        /\ trail' = QueryTrail("AuditAnalyzer", "Error analyzing unused classes", outcome)
        /\ lastRun' = IF outcome = "ok" THEN ClassesRun ELSE lastRun
        /\ UNCHANGED <<classes, class_methods, class_usage_references,
                       method_usage_references>>

\* -------------------------------------------------- get_usage_statistics
\* SUM over the rows of a table: NULL when the table has no row.
SqlSum(nRows, sum) == IF nRows = 0 THEN Null ELSE <<sum>>

UsedClasses == {c \in 1..Len(classes) : CopiesIn(c, class_usage_references) > 0}
UsedMethods == {m \in 1..Len(class_methods) : CopiesIn(m, method_usage_references) > 0}

UsageStatisticsQuery ==
    << [category |-> "Classes", total |-> Len(classes),
        used |-> SqlSum(Len(classes), Cardinality(UsedClasses))],
       [category |-> "Methods", total |-> Len(class_methods),
        used |-> SqlSum(Len(class_methods), Cardinality(UsedMethods))] >>

RoundTenths_Truncates(used, total) == (used * 1000) \div total

\* round(1) of used / total * 100, in tenths of a percent, ties to the even tenth.
RoundTenths(used, total) ==
    LET n == used * 1000
        q == n \div total
        r == 2 * (n % total)
    IN  IF r < total THEN q
        ELSE IF r > total THEN q + 1
        ELSE IF q % 2 = 0 THEN q ELSE q + 1

\* df['used'] / df['total'] * 100: a column holding a number is a float column, where
\* a NULL is NaN and stays NaN, whatever the divisor; a column of NULLs only is an
\* object column of None, whose quotient is an object column of NaN.
UsedIsObject_AnyNull(rows) == \E k \in 1..Len(rows) : rows[k].used = Null

UsedIsObject(rows) == \A k \in 1..Len(rows) : rows[k].used = Null

\* .round(1) of an object column: the library either raises TypeError (the elements
\* have no rint) or returns the column as it is, from one release to another.
ObjectRound == {"raises", "unchanged"}

UsageRate(row) ==
    IF row.used = Null THEN Null ELSE <<RoundTenths(row.used[1], row.total)>>

WithUsageRate(rows) ==
    [k \in 1..Len(rows) |->
        [category |-> rows[k].category, total |-> rows[k].total,
         used |-> rows[k].used, usage_rate |-> UsageRate(rows[k])]]

GetUsageStatistics ==
    \E outcome \in Outcomes, gc \in BOOLEAN, round \in ObjectRound :
        LET raised == /\ outcome = "ok"
                      /\ UsedIsObject(UsageStatisticsQuery)
                      /\ round = "raises"
            end == IF raised THEN "type_error" ELSE outcome
        IN  /\ ConnsAfter(end, gc) <= MaxConns
            /\ openConns' = ConnsAfter(end, gc)
            /\ result' = IF end = "ok"
                         THEN [op |-> "get_usage_statistics", status |-> "ok",
                               rows |-> WithUsageRate(UsageStatisticsQuery)]
                         ELSE [op |-> "get_usage_statistics", status |-> "error",
                               rows |-> <<>>]
            /\ trail' = QueryTrail("AuditAnalyzer", "Error generating usage statistics", end)
            /\ UNCHANGED <<classes, class_methods, class_usage_references,
                           method_usage_references, lastRun>>

\* ------------------------------------------------------ DartCodeAnalyzer
\* A class_methods row with the columns the DartCodeAnalyzer queries read; is_async
\* and is_static are nullable.
FlaggedMethodRow(c, n, a, is_async, is_static) ==
    [class_id |-> c, method_name |-> n, has_annotation |-> a,
     cyclomatic_complexity |-> 1, cognitive_complexity |-> 1,
     is_async |-> is_async, is_static |-> is_static]

\* ORDER BY: a stable sort of rows by a strict order, given as the set of the pairs
\* <<i, j>> where row i sorts before row j.
SortBy(rows, before) ==
    LET n == Len(rows)
        pos(i) == 1 + Cardinality({j \in 1..n :
                        \/ <<j, i>> \in before
                        \/ (<<i, j>> \notin before /\ j < i)})
    IN  [k \in 1..n |-> rows[CHOOSE i \in 1..n : pos(i) = k]]

\* _test_db_connection: SELECT 1 FROM source_files LIMIT 1; a sqlite3.Error is logged
\* and raised again as an Exception.
TestDbConnection ==
    \E outcome \in Outcomes, gc \in BOOLEAN :
        /\ ConnsAfter(outcome, gc) <= MaxConns
        /\ openConns' = ConnsAfter(outcome, gc)
        /\ result' = [op |-> "_test_db_connection",
                      status |-> IF outcome = "ok" THEN "ok" ELSE "error", rows |-> <<>>]
        /\ trail' = QueryTrail("DartCodeAnalyzer", "Database connection error", outcome)
        /\ UNCHANGED <<classes, class_methods, class_usage_references,
                       method_usage_references, lastRun>>

\* analyze_methods: the row of method m, with the raw flags.
DartMethodRow(m) ==
    LET r == class_methods[m]
        c == classes[r.class_id]
    IN  [method_id |-> m,
         file_name |-> FilePath[c.file_id],
         class_name |-> c.class_name,
         method_name |-> r.method_name,
         cyclomatic_complexity |-> r.cyclomatic_complexity,
         cognitive_complexity |-> r.cognitive_complexity,
         is_async |-> r.is_async,
         is_static |-> r.is_static]

DartMethodWhere(m) ==
    /\ class_methods[m].method_name \notin LifecycleMethods
    /\ class_methods[m].has_annotation = 0

\* ORDER BY file_path, class_name, method_name.
HierarchyOrderBefore(r1, r2) ==
    \/ StrRank(r1.file_name) < StrRank(r2.file_name)
    \/ /\ r1.file_name = r2.file_name
       /\ \/ StrRank(r1.class_name) < StrRank(r2.class_name)
          \/ /\ r1.class_name = r2.class_name
             /\ StrRank(r1.method_name) < StrRank(r2.method_name)

\* ORDER BY cyclomatic_complexity DESC, cognitive_complexity DESC, file_path,
\* class_name, method_name.
DartMethodOrderBefore(r1, r2) ==
    \/ r1.cyclomatic_complexity > r2.cyclomatic_complexity
    \/ /\ r1.cyclomatic_complexity = r2.cyclomatic_complexity
       /\ \/ r1.cognitive_complexity > r2.cognitive_complexity
          \/ /\ r1.cognitive_complexity = r2.cognitive_complexity
             /\ HierarchyOrderBefore(r1, r2)

AnalyzeMethodsQuery ==
    LET ids == SelectSeq(Ids(Len(class_methods)),
                         LAMBDA m : MethodJoins(m) /\ DartMethodWhere(m))
        rows == [k \in 1..Len(ids) |-> DartMethodRow(ids[k])]
    IN  SortBy(rows, {p \in (1..Len(rows)) \X (1..Len(rows)) :
                        DartMethodOrderBefore(rows[p[1]], rows[p[2]])})

AnalyzeMethods ==
    \E outcome \in Outcomes, gc \in BOOLEAN :
        /\ ConnsAfter(outcome, gc) <= MaxConns
        /\ openConns' = ConnsAfter(outcome, gc)
        /\ result' = IF outcome = "ok"
                     THEN [op |-> "analyze_methods", status |-> "ok",
                           rows |-> AnalyzeMethodsQuery]
                     ELSE [op |-> "analyze_methods", status |-> "error", rows |-> <<>>]
        /\ trail' = QueryTrail("DartCodeAnalyzer", "Error analyzing methods", outcome)
        /\ UNCHANGED <<classes, class_methods, class_usage_references,
                       method_usage_references, lastRun>>

AnalyzeClassHierarchy_Deletes ==
    /\ class_methods # <<>>
    /\ class_methods' = <<>>
    /\ result' = [op |-> "analyze_class_hierarchy", status |-> "ok", rows |-> <<>>]
    /\ trail' = NoTrail
    /\ UNCHANGED <<classes, class_usage_references, method_usage_references, openConns,
                   lastRun>>

AsyncToken_AnyValue(flag) == IF flag # Null /\ flag # <<0>> THEN "async" ELSE ""

\* CASE WHEN m.is_async = 1 THEN 'async' ELSE '' END: a NULL flag compares to nothing.
AsyncToken(flag) == IF flag = <<1>> THEN "async" ELSE ""

\* CASE WHEN m.is_static = 1 THEN 'static' ELSE '' END.
StaticToken(flag) == IF flag = <<1>> THEN "static" ELSE ""

\* analyze_class_hierarchy: source_files JOIN classes JOIN class_methods, no WHERE.
HierarchyRow(m) ==
    LET r == class_methods[m]
        c == classes[r.class_id]
    IN  [method_id |-> m,
         file_name |-> FilePath[c.file_id],
         class_name |-> c.class_name,
         widget_type |-> c.widget_type,
         framework_type |-> c.framework_type,
         method_name |-> r.method_name,
         is_async |-> AsyncToken(r.is_async),
         is_static |-> StaticToken(r.is_static)]

AnalyzeClassHierarchyQuery ==
    LET ids == SelectSeq(Ids(Len(class_methods)), MethodJoins)
        rows == [k \in 1..Len(ids) |-> HierarchyRow(ids[k])]
    IN  SortBy(rows, {p \in (1..Len(rows)) \X (1..Len(rows)) :
                        HierarchyOrderBefore(rows[p[1]], rows[p[2]])})

\* stats: len(df['class_name'].unique()) counts the class names of the listing,
\* len(df[df['widget_type'].notna()]) and len(df[df['framework_type'].notna()]) count
\* its rows.
ClassStatistics(df) ==
    [total_classes |-> Cardinality({df[k].class_name : k \in 1..Len(df)}),
     widget_classes |-> Cardinality({k \in 1..Len(df) : df[k].widget_type # Null}),
     framework_classes |-> Cardinality({k \in 1..Len(df) : df[k].framework_type # Null})]

\* The counts are logged at INFO and not returned: result.stats holds what was logged.
AnalyzeClassHierarchy ==
    \E outcome \in Outcomes, gc \in BOOLEAN :
        /\ ConnsAfter(outcome, gc) <= MaxConns
        /\ openConns' = ConnsAfter(outcome, gc)
        /\ result' = IF outcome = "ok"
                     THEN [op |-> "analyze_class_hierarchy", status |-> "ok",
                           rows |-> AnalyzeClassHierarchyQuery,
                           stats |-> ClassStatistics(AnalyzeClassHierarchyQuery)]
                     ELSE [op |-> "analyze_class_hierarchy", status |-> "error",
                           rows |-> <<>>]
        /\ trail' = QueryTrail("DartCodeAnalyzer", "Error analyzing class hierarchy",
                               outcome)
        /\ UNCHANGED <<classes, class_methods, class_usage_references,
                       method_usage_references, lastRun>>

\* DartCodeAnalyzer.get_file_contents: GROUP_CONCAT(... || GROUP_CONCAT(...)) nests an
\* aggregate in an aggregate, which SQLite refuses when it prepares the statement
\* (OperationalError, misuse of aggregate function): the query never returns.
DartGetFileContents ==
    \E outcome \in {"connect_error", "query_error"} :
        /\ ConnsAfter(outcome, FALSE) <= MaxConns
        /\ openConns' = ConnsAfter(outcome, FALSE)
        /\ result' = [op |-> "DartCodeAnalyzer.get_file_contents", status |-> "error",
                      rows |-> <<>>]
        /\ trail' = QueryTrail("DartCodeAnalyzer", "Error getting file contents", outcome)
        /\ UNCHANGED <<classes, class_methods, class_usage_references,
                       method_usage_references, lastRun>>

\* ------------------------------------------------------------- the sheets
\* A cell of a DataFrame: an int, a float (of an integral value), a str, a bool, the
\* NaN of a numeric column or the None of an object column.
IntCell(n) == [int |-> n]
FloatCell(n) == [float |-> n]
TextCell(t) == [text |-> t]
BoolCell(b) == [bool |-> b]
NaN == [nan |-> TRUE]
None == [none |-> TRUE]

Missing(cell) == cell = NaN \/ cell = None

\* pd.read_sql_query: the column of a result, from its values (<<v>>, or Null for a
\* NULL).  Integers with a NULL among them come as float64 with NaN, a column of NULLs
\* only (or of no row) as object.
SqlColumn(name, kind, values) ==
    LET n == Len(values)
        nulls == {i \in 1..n : values[i] = Null}
        dtype == IF kind = "text" \/ nulls = 1..n THEN "object"
                 ELSE IF nulls # {} THEN "float64" ELSE "int64"
    IN  [name |-> name, dtype |-> dtype,
         cells |-> [i \in 1..n |->
                      IF i \in nulls THEN (IF dtype = "object" THEN None ELSE NaN)
                      ELSE IF kind = "text" THEN TextCell(values[i][1])
                      ELSE IF dtype = "float64" THEN FloatCell(values[i][1])
                      ELSE IntCell(values[i][1])]]

\* The Methods listing as a DataFrame, with the columns whose text the model holds.
MethodsFrame(rows) ==
    << SqlColumn("method_name", "text", [k \in 1..Len(rows) |-> <<rows[k].method_name>>]),
       SqlColumn("cyclomatic_complexity", "int",
                 [k \in 1..Len(rows) |-> <<rows[k].cyclomatic_complexity>>]),
       SqlColumn("is_async", "int", [k \in 1..Len(rows) |-> rows[k].is_async]),
       SqlColumn("is_static", "int", [k \in 1..Len(rows) |-> rows[k].is_static]) >>

\* The Hierarchy listing as a DataFrame.
HierarchyFrame(rows) ==
    << SqlColumn("method_name", "text", [k \in 1..Len(rows) |-> <<rows[k].method_name>>]),
       SqlColumn("is_async", "text", [k \in 1..Len(rows) |-> <<rows[k].is_async>>]),
       SqlColumn("is_static", "text", [k \in 1..Len(rows) |-> <<rows[k].is_static>>]) >>

\* df.fillna(''): a filled numeric column becomes an object column.
FillNa(col) ==
    [name |-> col.name,
     dtype |-> IF \E i \in 1..Len(col.cells) : Missing(col.cells[i]) THEN "object"
               ELSE col.dtype,
     cells |-> [i \in 1..Len(col.cells) |->
                  IF Missing(col.cells[i]) THEN TextCell("") ELSE col.cells[i]]]

\* for col in df.select_dtypes(include=['bool']).columns:
\*     df[col] = df[col].map({True: 'Yes', False: 'No'})
YesNo(col) ==
    IF col.dtype = "bool"
    THEN [name |-> col.name, dtype |-> "object",
          cells |-> [i \in 1..Len(col.cells) |->
                       IF col.cells[i] = BoolCell(TRUE) THEN TextCell("Yes") ELSE TextCell("No")]]
    ELSE col

Preprocess(df) == [i \in 1..Len(df) |-> YesNo(FillNa(df[i]))]

\* astype(str) of a cell.
Str(cell) ==
    CASE DOMAIN cell = {"int"} -> ToString(cell.int)
      [] DOMAIN cell = {"float"} -> ToString(cell.float) \o ".0"
      [] DOMAIN cell = {"text"} -> cell.text
      [] DOMAIN cell = {"bool"} -> IF cell.bool THEN "True" ELSE "False"
      [] DOMAIN cell = {"nan"} -> "nan"
      [] DOMAIN cell = {"none"} -> "None"

Max(a, b) == IF a >= b THEN a ELSE b
Min(a, b) == IF a <= b THEN a ELSE b

RECURSIVE MaxOf(_)
MaxOf(ns) == IF Len(ns) = 1 THEN ns[1] ELSE Max(ns[1], MaxOf(Tail(ns)))

WidthPad == 2
WidthCap == 50

\* max_length = max(df[col].astype(str).apply(len).max(), len(str(col)))
\* width = min(max_length + 2, 50)
\* The max() of a column without cells is NaN; max(NaN, n) and min(NaN + 2, 50) keep
\* their first argument, so the width of such a column is NaN (Null).
ColumnWidth(col) ==
    IF col.cells = <<>> THEN Null
    ELSE <<Min(Max(MaxOf([i \in 1..Len(col.cells) |-> Len(Str(col.cells[i]))]),
                   Len(col.name)) + WidthPad,
               WidthCap)>>

\* What to_excel writes for a cell: a missing value as the empty string (na_rep).
Written(cell) == IF Missing(cell) THEN TextCell("") ELSE cell

SheetLimit == 31

\* safe_sheet_name = sheet_name[:31]
SafeSheetName(sheet_name) == SubSeq(sheet_name, 1, Min(Len(sheet_name), SheetLimit))

\* A sheet has a title, columns (header and cells below it) and the widths set.

\* to_excel on a sheet: the header and the cells are written from the first row and
\* the first column on; what the sheet held beyond them stays.
Overlaid(old, df) ==
    [i \in 1..Max(Len(old), Len(df)) |->
        IF i > Len(df) THEN old[i]
        ELSE [header |-> df[i].name,
              cells |-> [j \in 1..Max(Len(df[i].cells),
                                       IF i <= Len(old) THEN Len(old[i].cells) ELSE 0) |->
                           IF j <= Len(df[i].cells) THEN Written(df[i].cells[j])
                           ELSE old[i].cells[j]]]]

\* df.to_excel(writer, sheet_name=title, index=False) and the formatting of the sheet:
\* a writer in mode 'w' writes into the sheet of that title when it has one already,
\* and adds a sheet otherwise.
WriteSheet(book, title, df) ==
    LET at == {k \in 1..Len(book) : book[k].title = title}
        k == IF at = {} THEN Len(book) + 1 ELSE CHOOSE x \in at : TRUE
        sheet == IF at = {} THEN [title |-> title, columns |-> <<>>, widths |-> <<>>]
                 ELSE book[k]
        \* _format_excel_sheet sets the widths of the columns of df, column by column
        done == [title |-> title,
                 columns |-> Overlaid(sheet.columns, df),
                 widths |-> [i \in 1..Max(Len(sheet.widths), Len(df)) |->
                               IF i <= Len(df) THEN ColumnWidth(df[i])
                               ELSE sheet.widths[i]]]
    IN  [i \in 1..Max(Len(book), k) |-> IF i = k THEN done ELSE book[i]]

\* for sheet_name, df in dfs.items(): the workbook after the sheets of dfs, in order.
RECURSIVE WriteSheets(_, _)
WriteSheets(book, dfs) ==
    IF dfs = <<>> THEN book
    ELSE WriteSheets(WriteSheet(book, dfs[1].name, dfs[1].frame), Tail(dfs))

\* export_to_excel: the mapping after the preprocessing and the truncation of names.
ProcessedFrames(dfs) ==
    [k \in 1..Len(dfs) |->
        [name |-> SafeSheetName(dfs[k].name), frame |-> Preprocess(dfs[k].frame)]]

\* What can go wrong in writing a workbook; a workbook without a sheet cannot be saved.
WriteOutcomes == {"ok", "write_error"}

\* The files fs with content written to file.
Put(fs, file, content) == (file :> content) @@ fs

\* A write that fails: the file could not be opened and nothing is touched, or it was
\* opened (created or truncated) and is left without the complete content.
FailedWrite(fs, file) == {fs, Put(fs, file, [file |-> file, damaged |-> TRUE])}

ExportToExcel ==
    \E outcome \in WriteOutcomes :
        LET end == IF dataframes = <<>> THEN "write_error" ELSE outcome IN
        /\ artifact' \in
              IF end = "ok"
              THEN {Put(artifact, "dart_analysis_file",
                        [file |-> "dart_analysis_file",
                         sheets |-> WriteSheets(<<>>, ProcessedFrames(dataframes))])}
              ELSE FailedWrite(artifact, "dart_analysis_file")
        /\ result' = [op |-> "export_to_excel",
                      status |-> IF end = "ok" THEN "ok" ELSE "error", rows |-> <<>>]
        /\ trail' = QueryTrail("DartCodeAnalyzer", "Error exporting to Excel", end)
        /\ UNCHANGED <<classes, class_methods, class_usage_references,
                       method_usage_references, openConns, lastRun, dataframes, render>>

\* ----------------------------------------------------- SchemaDocAnalyzer
\* The tables of the store, as sqlite_master lists them, and the descriptions
\* get_tables_info maps onto them.
TableNames == <<"source_files", "classes", "class_methods", "class_usage_references",
                "method_usage_references">>

Descriptions ==
    [t \in {TableNames[i] : i \in DOMAIN TableNames} |->
        CASE t = "source_files" -> "Stores Dart source file information"
          [] t = "classes" -> "Defines classes, interfaces, and mixins"
          [] t = "class_methods" -> "Contains methods and their metrics"
          [] t = "class_usage_references" -> "Track class usage and references"
          [] t = "method_usage_references" -> "Track method calls and usage"]

GetTablesInfo ==
    \E outcome \in Outcomes, gc \in BOOLEAN :
        /\ ConnsAfter(outcome, gc) <= MaxConns
        /\ openConns' = ConnsAfter(outcome, gc)
        /\ result' = IF outcome = "ok"
                     THEN [op |-> "get_tables_info", status |-> "ok",
                           rows |-> [i \in DOMAIN TableNames |->
                                       [table_name |-> TableNames[i],
                                        description |-> Descriptions[TableNames[i]]]]]
                     ELSE [op |-> "get_tables_info", status |-> "error", rows |-> <<>>]
        /\ trail' = QueryTrail("SchemaDocAnalyzer", "Error getting tables info", outcome)
        /\ UNCHANGED <<classes, class_methods, class_usage_references,
                       method_usage_references, lastRun>>

\* SchemaDocAnalyzer.get_file_contents: source_files LEFT JOIN classes LEFT JOIN
\* class_methods GROUP BY file, class: one row per class, and one row with a NULL class
\* per file without classes; Methods counts the names GROUP_CONCAT joins.
ClassesOf(f) == {c \in 1..Len(classes) : classes[c].file_id = f}

StructureRow(f, c) ==
    [File |-> FilePath[f],
     Class |-> IF c = 0 THEN Null ELSE <<classes[c].class_name>>,
     Methods |-> IF c = 0 \/ MethodsOf(c) = {} THEN Null ELSE <<Cardinality(MethodsOf(c))>>]

\* ORDER BY sf.file_path, c.class_name: a NULL class sorts first.
StructureOrderBefore(r1, r2) ==
    \/ StrRank(r1.File) < StrRank(r2.File)
    \/ /\ r1.File = r2.File
       /\ r2.Class # Null
       /\ (r1.Class = Null \/ StrRank(r1.Class[1]) < StrRank(r2.Class[1]))

CodeStructureQuery ==
    LET pairs == {<<f, c>> \in (DOMAIN FilePath) \X (0..Len(classes)) :
                    IF c = 0 THEN ClassesOf(f) = {} ELSE c \in ClassesOf(f)}
        \* one group per (file_path, class_name, type): classes of a file with the same
        \* name and type fall into one group; the model's classes differ in one of them
        scan == SelectSeq([i \in 1..(Len(FilePath) * (Len(classes) + 1)) |->
                             <<((i - 1) \div (Len(classes) + 1)) + 1,
                               (i - 1) % (Len(classes) + 1)>>],
                          LAMBDA p : p \in pairs)
        rows == [k \in 1..Len(scan) |-> StructureRow(scan[k][1], scan[k][2])]
    IN  SortBy(rows, {p \in (1..Len(rows)) \X (1..Len(rows)) :
                        StructureOrderBefore(rows[p[1]], rows[p[2]])})

SchemaGetFileContents ==
    \E outcome \in Outcomes, gc \in BOOLEAN :
        /\ ConnsAfter(outcome, gc) <= MaxConns
        /\ openConns' = ConnsAfter(outcome, gc)
        /\ result' = IF outcome = "ok"
                     THEN [op |-> "SchemaDocAnalyzer.get_file_contents", status |-> "ok",
                           rows |-> CodeStructureQuery]
                     ELSE [op |-> "SchemaDocAnalyzer.get_file_contents",
                           status |-> "error", rows |-> <<>>]
        /\ trail' = QueryTrail("SchemaDocAnalyzer", "Error getting file contents", outcome)
        /\ UNCHANGED <<classes, class_methods, class_usage_references,
                       method_usage_references, lastRun>>

\* ------------------------------------------------------- AnalyzerConfig
\* The fields in the order _load_pml_config assigns them, and the key of each.
Fields == <<"app_name", "lib_dir", "excluded_dirs", "excluded_files", "db_dir",
            "db_name", "cleanup_on_start", "output_doc_dir", "output_reports_dir",
            "output_temp_dir", "log_level", "log_file", "log_to_console">>

Keys == <<"app.name", "app.lib_dir", "analyzer.excluded.dirs",
          "analyzer.excluded.files", "analyzer.database.dir", "analyzer.database.name",
          "analyzer.database.cleanup_on_start", "output.doc_dir", "output.reports_dir",
          "output.temp_dir", "logging.level", "logging.file", "logging.console">>

\* The compiled-in defaults of __init__, as text.
Defaults ==
    [f \in {Fields[i] : i \in DOMAIN Fields} |->
        CASE f = "app_name" -> "minssalor"
          [] f = "lib_dir" -> "lib"
          [] f = "excluded_dirs" -> "['lib/generated']"
          [] f = "excluded_files" -> "['.freezed.dart', '.g.dart', '_test.dart']"
          [] f = "db_dir" -> "pmlutils/database"
          [] f = "db_name" -> "analysis.db"
          [] f = "cleanup_on_start" -> "True"
          [] f = "output_doc_dir" -> "pmlutils/output/doc"
          [] f = "output_reports_dir" -> "pmlutils/output/reports"
          [] f = "output_temp_dir" -> "pmlutils/output/temp"
          [] f = "log_level" -> "info"
          [] f = "log_file" -> "pmlutils/logs/analysis.log"
          [] f = "log_to_console" -> "True"]

\* The value the document gives key i: a text of the document's own.
DocumentValue(i) == "pml.yaml " \o Keys[i]

\* The sections of the document: each is absent, a scalar, or a mapping holding some
\* of its keys (numbered as in Keys) and, for analyzer, its two subsections.
Section(ks) ==
    {[is |-> "absent", keys |-> {}], [is |-> "scalar", keys |-> {}]}
        \cup {[is |-> "mapping", keys |-> k] : k \in SUBSET ks}

AnalyzerSection ==
    {[is |-> "absent", keys |-> {}], [is |-> "scalar", keys |-> {}]}
        \cup {[is |-> "mapping", keys |-> e.keys \cup d.keys] :
                e \in Section({3, 4}), d \in Section({5, 6, 7})}

\* pml.yaml: missing, unreadable, not YAML, empty (safe_load gives None), a scalar or
\* a list, or a mapping; keys are the keys a mapping holds under mapping sections.
NoMapping == {"missing", "unreadable", "invalid", "empty", "scalar", "list"}

Documents ==
    {[kind |-> k, keys |-> {}] : k \in NoMapping}
        \cup {[kind |-> "mapping", keys |-> a.keys \cup z.keys \cup o.keys \cup l.keys] :
                a \in Section({1, 2}), z \in AnalyzerSection,
                o \in Section({8, 9, 10}), l \in Section({11, 12, 13})}

\* config[...][...] for key i raises when the document is no mapping, a section on
\* the way is absent or no mapping, or the key is absent; log_config.get('console',
\* True) does not raise for an absent key.
AccessRaises_ConsoleToo(i) == i \notin pml.keys

AccessRaises(i) ==
    IF Keys[i] = "logging.console" THEN FALSE ELSE i \notin pml.keys

Loaded(i) == IF i \in pml.keys THEN DocumentValue(i) ELSE Defaults[Fields[i]]

\* The assignments of the try block from the i-th on; the first access that raises
\* ends them.
RECURSIVE AssignFrom(_, _)
AssignFrom(i, cfg) ==
    IF i > Len(Fields) \/ AccessRaises(i) THEN cfg
    ELSE AssignFrom(i + 1, [cfg EXCEPT ![Fields[i]] = Loaded(i)])

\* open() and yaml.safe_load raise for a missing, unreadable or invalid document.
\* Every exception of the try block is an Exception, caught by the except.
LoadRaises ==
    \/ pml.kind \in {"missing", "unreadable", "invalid"}
    \/ \E i \in 1..Len(Fields) : AccessRaises(i)

\* AnalyzerConfig(): __init__ sets the defaults, then _load_pml_config.
NewAnalyzerConfig ==
    /\ configState = "unbuilt"
    /\ config' = IF pml.kind \in {"missing", "unreadable", "invalid"}
                 THEN Defaults
                 ELSE AssignFrom(1, Defaults)
    /\ configState' = IF LoadRaises THEN "defaulted" ELSE "loaded"
    /\ UNCHANGED pml

\* ----------------------------------------------------------- DocAnalyzer
\* Text is a sequence of tokens.  In a path a token is "/", "." or part of a name
\* (".dart", ".g" and "_test" are one token each); str.startswith and str.endswith
\* are the prefix and the suffix of the sequence.
StartsWith(t, prefix) ==
    Len(prefix) <= Len(t) /\ SubSeq(t, 1, Len(prefix)) = prefix

EndsWith(t, suffix) ==
    Len(suffix) <= Len(t) /\ SubSeq(t, Len(t) - Len(suffix) + 1, Len(t)) = suffix

Drop(t, n) == SubSeq(t, n + 1, Len(t))

\* os.path.join(root, name).
PathJoin(root, name) == root \o <<"/">> \o name

\* The path from the working directory /p, which is the project root.
Resolve(path) ==
    IF StartsWith(path, <<".", "/">>) THEN Drop(path, 2)
    ELSE IF StartsWith(path, <<"/", "p", "/">>) THEN Drop(path, 3)
    ELSE path

\* os.path.relpath(path, start), for a path below start.
RelPath(path, start) == Drop(Resolve(path), Len(Resolve(start)) + 1)

\* The source tree: lib (l) with generated (g, and s below it), gx and m.
Dart(stem) == stem \o <<".dart">>

SourceTree ==
    (<<"l">> :> [dirs |-> << <<"g">>, <<"g", "x">>, <<"m">> >>,
                 files |-> << Dart(<<"a">>) >>])
    @@ (<<"l", "/", "g">> :> [dirs |-> << <<"s">> >>, files |-> << Dart(<<"b">>) >>])
    @@ (<<"l", "/", "g", "/", "s">> :> [dirs |-> <<>>, files |-> << Dart(<<"c">>) >>])
    @@ (<<"l", "/", "g", "x">> :> [dirs |-> <<>>, files |-> << Dart(<<"d">>) >>])
    @@ (<<"l", "/", "m">> :>
            [dirs |-> <<>>,
             files |-> << Dart(<<"e">>), Dart(<<"e", ".g">>), Dart(<<"e", "_test">>),
                          <<"n", ".txt">> >>])

FilePaths ==
    UNION {{PathJoin(d, SourceTree[d].files[i]) : i \in DOMAIN SourceTree[d].files} :
             d \in DOMAIN SourceTree}

\* The content of a file, in tokens: "OPEN" is a text matching ///\s*<claude>,
\* "CLOSE" one matching ///\s*</claude>, " " whitespace, "x" any other text.
Tokens == {"OPEN", "CLOSE", " ", "x"}

\* str.strip(): without the whitespace at both ends.
RECURSIVE Strip(_)
Strip(t) ==
    IF t = <<>> THEN t
    ELSE IF Head(t) = " " THEN Strip(Tail(t))
    ELSE IF t[Len(t)] = " " THEN Strip(SubSeq(t, 1, Len(t) - 1))
    ELSE t

ExtractClaudeDoc_Greedy(content) ==
    LET n == Len(content)
        starts == {i \in 1..n : content[i] = "OPEN"
                                  /\ \E j \in (i + 1)..n : content[j] = "CLOSE"}
    IN  IF starts = {} THEN Null
        ELSE LET i == CHOOSE x \in starts : \A y \in starts : x <= y
                 j == CHOOSE x \in (i + 1)..n :
                        content[x] = "CLOSE"
                        /\ \A y \in (i + 1)..n : content[y] = "CLOSE" => y <= x
             IN  <<Strip(SubSeq(content, i + 1, j - 1))>>

\* re.search(r'///\s*<claude>(.*?)///\s*</claude>', content, re.DOTALL): the leftmost
\* opening marker a closing marker follows, up to the first closing marker after it;
\* group(1).strip(), or None (Null) without a match.
ExtractClaudeDoc(content) ==
    LET n == Len(content)
        starts == {i \in 1..n : content[i] = "OPEN"
                                  /\ \E j \in (i + 1)..n : content[j] = "CLOSE"}
    IN  IF starts = {} THEN Null
        ELSE LET i == CHOOSE x \in starts : \A y \in starts : x <= y
                 j == CHOOSE x \in (i + 1)..n :
                        content[x] = "CLOSE"
                        /\ \A y \in (i + 1)..n : content[y] = "CLOSE" => x <= y
             IN  <<Strip(SubSeq(content, i + 1, j - 1))>>

\* `if doc:` a None and an empty text are both false.
Truthy(doc) == doc # Null /\ doc[1] # <<>>

\* process_file(file_path): what it leaves in docs; a read error is logged and
\* swallowed.
DocsAfter(ds, file_path) ==
    LET f == files[Resolve(file_path)]
        doc == ExtractClaudeDoc(f.content)
    IN  IF f.readable /\ Truthy(doc)
        THEN Append(ds, [path |-> RelPath(file_path, lib_path), doc |-> doc[1]])
        ELSE ds

LastDocAfter(last, file_path) ==
    LET f == files[Resolve(file_path)]
    IN  IF f.readable THEN <<ExtractClaudeDoc(f.content)>> ELSE last

ProcessFile(file_path) ==
    /\ Len(visited) < MaxVisits
    /\ docs' = DocsAfter(docs, file_path)
    /\ lastDoc' = LastDocAfter(lastDoc, file_path)
    /\ visited' = Append(visited, file_path)
    /\ UNCHANGED <<lib_path, excluded_dirs, excluded_files, files, scans, summary>>

\* The directories of root that scan_directory keeps in dirs[:].
KeptDir(root, d) ==
    ~\E k \in DOMAIN excluded_dirs : StartsWith(PathJoin(root, d), excluded_dirs[k])

\* The files of a directory that scan_directory passes to process_file.
EligibleFile(file) ==
    /\ EndsWith(file, <<".dart">>)
    /\ ~\E k \in DOMAIN excluded_files : EndsWith(file, excluded_files[k])

\* os.walk(root), top down: the full paths passed to process_file, in order.
RECURSIVE WalkDir(_), WalkDirs(_, _)
WalkDir(root) ==
    LET node == SourceTree[Resolve(root)]
        kept == SelectSeq(node.dirs, LAMBDA d : KeptDir(root, d))
        here == SelectSeq(node.files, EligibleFile)
    IN  [k \in 1..Len(here) |-> PathJoin(root, here[k])] \o WalkDirs(root, kept)

WalkDirs(root, ds) ==
    IF ds = <<>> THEN <<>>
    ELSE WalkDir(PathJoin(root, Head(ds))) \o WalkDirs(root, Tail(ds))

RECURSIVE DocsAfterAll(_, _)
DocsAfterAll(ds, paths) ==
    IF paths = <<>> THEN ds
    ELSE DocsAfterAll(DocsAfter(ds, Head(paths)), Tail(paths))

RECURSIVE LastDocAfterAll(_, _)
LastDocAfterAll(last, paths) ==
    IF paths = <<>> THEN last
    ELSE LastDocAfterAll(LastDocAfter(last, Head(paths)), Tail(paths))

ScanDirectory_Clears ==
    /\ scans < MaxScans
    /\ scans' = scans + 1
    /\ docs' = DocsAfterAll(<<>>, WalkDir(lib_path))
    /\ lastDoc' = LastDocAfterAll(lastDoc, WalkDir(lib_path))
    /\ visited' = visited \o WalkDir(lib_path)
    /\ UNCHANGED <<lib_path, excluded_dirs, excluded_files, files, summary>>

\* scan_directory: self.docs is set to [] in __init__ only; every scan appends to it.
ScanDirectory ==
    /\ scans < MaxScans
    /\ scans' = scans + 1
    /\ docs' = DocsAfterAll(docs, WalkDir(lib_path))
    /\ lastDoc' = LastDocAfterAll(lastDoc, WalkDir(lib_path))
    /\ visited' = visited \o WalkDir(lib_path)
    /\ UNCHANGED <<lib_path, excluded_dirs, excluded_files, files, summary>>

\* ------------------------------------------------------ generate_summary
\* Byte order of the tokens of a relative path; no token is the beginning of another,
\* so that comparing token by token compares the texts.
PathCollation == <<".dart", ".g", ".txt", "/", "_test", "a", "b", "c", "d", "e", "g",
                   "l", "m", "n", "s", "x">>

TokRank(t) == CHOOSE i \in 1..Len(PathCollation) : PathCollation[i] = t

\* s < t as Python compares two str.
RECURSIVE TextBefore(_, _)
TextBefore(s, t) ==
    IF t = <<>> THEN FALSE
    ELSE IF s = <<>> THEN TRUE
    ELSE IF Head(s) = Head(t) THEN TextBefore(Tail(s), Tail(t))
    ELSE TokRank(Head(s)) < TokRank(Head(t))

LastSlash(path) ==
    LET at == {i \in 1..Len(path) : path[i] = "/"}
    IN  IF at = {} THEN 0 ELSE CHOOSE i \in at : \A j \in at : j <= i

\* os.path.dirname and os.path.basename of a relative path.
DirName(path) == SubSeq(path, 1, LastSlash(path) - 1)
BaseName(path) == SubSeq(path, LastSlash(path) + 1, Len(path))

\* The keys of folders.
Folders(ds) == {DirName(ds[k].path) : k \in 1..Len(ds)}

FolderBefore_Descending(f, g) == TextBefore(g, f)

\* sorted(folders.items()): the keys are distinct, so the items compare by key.
FolderBefore(f, g) == TextBefore(f, g)

SortedFolders(ds) ==
    LET fs == Folders(ds)
    IN  [k \in 1..Cardinality(fs) |->
            CHOOSE f \in fs : Cardinality({g \in fs : FolderBefore(g, f)}) = k - 1]

\* folders[folder]: the records of the folder, as places in docs, in the order of docs.
FolderDocs(ds, folder) ==
    SelectSeq(Ids(Len(ds)), LAMBDA k : DirName(ds[k].path) = folder)

\* sorted(docs, key=lambda x: x['path']): a stable sort.
SortedDocs(ds, ks) ==
    LET n == Len(ks)
        pos(i) == 1 + Cardinality({j \in 1..n :
                        \/ TextBefore(ds[ks[j]].path, ds[ks[i]].path)
                        \/ (~TextBefore(ds[ks[i]].path, ds[ks[j]].path) /\ j < i)})
    IN  [k \in 1..n |-> ks[CHOOSE i \in 1..n : pos(i) = k]]

\* The lines of the document: level is the number of # of a heading, 0 for a text.
\* folder (of a level-3 heading) and rec (the place in docs of a level-4 entry) name
\* what the line was written for.
Line(level, text, folder, rec) ==
    [level |-> level, text |-> text, folder |-> folder, rec |-> rec]

SummaryHead ==
    << Line(1, <<"Documentation Summary">>, <<>>, 0),
       Line(2, <<"Project Overview">>, <<>>, 0),
       Line(2, <<"Components Documentation">>, <<>>, 0) >>

FolderSection(ds, folder) ==
    LET ks == SortedDocs(ds, FolderDocs(ds, folder))
    IN  << Line(3, IF folder = <<>> THEN <<"Root">> ELSE folder, folder, 0) >>
        \o [i \in 1..(2 * Len(ks)) |->
                IF i % 2 = 1
                THEN Line(4, BaseName(ds[ks[(i + 1) \div 2]].path), <<>>, ks[(i + 1) \div 2])
                ELSE Line(0, ds[ks[i \div 2]].doc, <<>>, 0)]

RECURSIVE FolderSections(_, _)
FolderSections(ds, fs) ==
    IF fs = <<>> THEN <<>>
    ELSE FolderSection(ds, Head(fs)) \o FolderSections(ds, Tail(fs))

GenerateSummaryText(ds) == SummaryHead \o FolderSections(ds, SortedFolders(ds))

GenerateSummary ==
    /\ summary' = <<GenerateSummaryText(docs)>>
    /\ UNCHANGED <<lib_path, excluded_dirs, excluded_files, files, docs, visited,
                   lastDoc, scans>>

\* ------------------------------------------------------- the entry points
\* A handler that calls other handlers ends at the first failure on its way.  A fault
\* is Null (nothing fails) or <<step, kind>>: the step of the handler that fails and
\* how.  Every handler on the way of the exception logs its message and raises again,
\* so the error records of a run are those of the innermost handler first.
Failure(fault, errors) ==
    [fault |-> IF fault = Null THEN "ok" ELSE fault[2], errors |-> errors]

\* A column of a DataFrame built from a list of dicts.
StaticColumn(name, texts) ==
    [name |-> name, dtype |-> "object",
     cells |-> [i \in 1..Len(texts) |-> TextCell(texts[i])]]

\* The tables of the audit report, with the columns whose text the model holds.
UnusedMethodsFrame(rows) ==
    << SqlColumn("file_name", "text", [k \in 1..Len(rows) |-> <<rows[k].file_name>>]),
       SqlColumn("class_name", "text", [k \in 1..Len(rows) |-> <<rows[k].class_name>>]),
       SqlColumn("method_name", "text", [k \in 1..Len(rows) |-> <<rows[k].method_name>>]),
       SqlColumn("cyclomatic_complexity", "int",
                 [k \in 1..Len(rows) |-> <<rows[k].cyclomatic_complexity>>]) >>

UnusedClassesFrame(rows) ==
    << SqlColumn("file_name", "text", [k \in 1..Len(rows) |-> <<rows[k].file_name>>]),
       SqlColumn("class_name", "text", [k \in 1..Len(rows) |-> <<rows[k].class_name>>]),
       SqlColumn("method_count", "int", [k \in 1..Len(rows) |-> <<rows[k].method_count>>]) >>

UsageFrame(rows) ==
    << SqlColumn("category", "text", [k \in 1..Len(rows) |-> <<rows[k].category>>]),
       SqlColumn("total", "int", [k \in 1..Len(rows) |-> <<rows[k].total>>]),
       SqlColumn("used", "int", [k \in 1..Len(rows) |-> rows[k].used]) >>

\* The faults of export_audit_report: a database failure in one of its three queries,
\* or a failure in writing the workbook (step 4).
AuditFaults == {Null} \cup ((1..3) \X (Outcomes \ {"ok"})) \cup {<<4, "write_error">>}

\* The outcomes of the rounding in get_usage_statistics: an object column is rounded
\* only on a store without classes and methods.
Rounds == IF UsedIsObject(UsageStatisticsQuery) THEN ObjectRound ELSE {"unchanged"}

\* The fault export_audit_report ends with: when no query fails before it, the
\* rounding in get_usage_statistics can raise on a store without classes and methods.
AuditFault(fault, round) ==
    IF (fault = Null \/ fault[1] = 4)
          /\ UsedIsObject(UsageStatisticsQuery) /\ round = "raises"
    THEN <<3, "type_error">>
    ELSE fault

\* export_audit_report: what it logs on its way out.
AuditReportErrors(fault) ==
    IF fault = Null THEN <<>>
    ELSE (IF fault[1] <= 3
          THEN QueryTrail("AuditAnalyzer",
                          <<"Error analyzing unused methods",
                            "Error analyzing unused classes",
                            "Error generating usage statistics">>[fault[1]],
                          fault[2]).errors
          ELSE <<>>)
         \o <<ErrorRecord("AuditAnalyzer", "Error exporting audit report")>>

\* The workbook export_audit_report writes; no fillna here, a missing value is an
\* empty cell.
AuditReport ==
    [file |-> "audit_report_file",
     sheets |-> WriteSheets(<<>>,
        << [name |-> "unused_methods", frame |-> UnusedMethodsFrame(UnusedMethodsQuery)],
           [name |-> "unused_classes", frame |-> UnusedClassesFrame(UnusedClassesQuery)],
           [name |-> "usage_statistics", frame |-> UsageFrame(UsageStatisticsQuery)] >>)]

AuditFiles_OpensFirst(fs, fault) ==
    IF fault = Null THEN {Put(fs, "audit_report_file", AuditReport)}
    ELSE {Put(fs, "audit_report_file", [file |-> "audit_report_file", damaged |-> TRUE])}

\* The files after export_audit_report: the three queries come before the writer
\* is opened, so only a failure of step 4 can touch the file.
AuditFiles(fs, fault) ==
    IF fault = Null THEN {Put(fs, "audit_report_file", AuditReport)}
    ELSE IF fault[1] = 4 THEN FailedWrite(fs, "audit_report_file")
    ELSE {fs}

\* Whether analyze_unused_classes has returned before the fault.
ClassesRan(fault) == fault = Null \/ fault[1] > 2

\* The queries that have opened a connection before the handler ends.
Connected(fault, queries) ==
    IF fault = Null \/ fault[1] > queries THEN queries
    ELSE IF fault[2] = "connect_error" THEN fault[1] - 1 ELSE fault[1]

ExportAuditReport ==
    \E chosen \in AuditFaults, round \in Rounds :
        LET fault == AuditFault(chosen, round) IN
        \E leaked \in 0..Connected(fault, 3) :
            /\ openConns + leaked <= MaxConns
            /\ openConns' = openConns + leaked
            /\ artifact' \in AuditFiles(artifact, fault)
            /\ result' = [op |-> "export_audit_report",
                          status |-> IF fault = Null THEN "ok" ELSE "error", rows |-> <<>>]
            /\ trail' = Failure(fault, AuditReportErrors(fault))
            /\ lastRun' = IF ClassesRan(fault) THEN ClassesRun ELSE lastRun
            /\ UNCHANGED <<classes, class_methods, class_usage_references,
                           method_usage_references, dataframes, render>>

\* AuditAnalyzer.run: export_audit_report, and one more record on its failure.
AuditRunErrors(fault) ==
    IF fault = Null THEN <<>>
    ELSE AuditReportErrors(fault) \o <<ErrorRecord("AuditAnalyzer", "Audit analysis failed")>>

AuditRun ==
    \E chosen \in AuditFaults, round \in Rounds :
        LET fault == AuditFault(chosen, round) IN
        \E leaked \in 0..Connected(fault, 3) :
            /\ openConns + leaked <= MaxConns
            /\ openConns' = openConns + leaked
            /\ artifact' \in AuditFiles(artifact, fault)
            /\ result' = [op |-> "AuditAnalyzer.run",
                          status |-> IF fault = Null THEN "ok" ELSE "error", rows |-> <<>>]
            /\ trail' = Failure(fault, AuditRunErrors(fault))
            /\ lastRun' = IF ClassesRan(fault) THEN ClassesRun ELSE lastRun
            /\ UNCHANGED <<classes, class_methods, class_usage_references,
                           method_usage_references, dataframes, render>>

\* The tables of the schema documentation.  In Code_Structure the number of methods
\* of a class stands for the text that joins their names.
TablesFrame ==
    << StaticColumn("table_name", TableNames),
       StaticColumn("description", [i \in DOMAIN TableNames |-> Descriptions[TableNames[i]]]) >>

RelationsFrame ==
    << StaticColumn("source_table", <<"file_imports", "file_imports", "classes",
                                      "class_methods", "class_usage_references",
                                      "method_usage_references">>),
       StaticColumn("target_table", <<"source_files", "file_imports", "source_files",
                                      "classes", "classes", "class_methods">>),
       StaticColumn("source_column", <<"file_id", "import_id", "file_id", "class_id",
                                       "referenced_class_id", "referenced_method_id">>),
       StaticColumn("target_column", <<"file_id", "import_path", "file_id", "class_id",
                                       "class_id", "method_id">>),
       StaticColumn("type", <<"1:N", "UNIQUE", "1:N", "1:N", "N:1", "N:1">>),
       StaticColumn("description", <<"File imports relationship",
                                     "Unique import identifier", "Classes defined in file",
                                     "Methods belonging to class", "Class usage tracking",
                                     "Method usage tracking">>) >>

AstFrame ==
    << StaticColumn("concept", <<"AST Analysis", "AST Visitors", "Code Metrics",
                                 "Usage Analysis">>),
       StaticColumn("description", <<"Parses Dart source into Abstract Syntax Tree",
                                     "Tree traversal for information extraction",
                                     "Complexity and maintainability metrics",
                                     "Tracks class and method usage">>),
       StaticColumn("usage", <<"Classes and methods extraction",
                               "Definition and usage analysis", "Code quality assessment",
                               "Dead code detection">>) >>

StructureFrame(rows) ==
    << SqlColumn("File", "text", [k \in 1..Len(rows) |-> <<rows[k].File>>]),
       SqlColumn("Class", "text", [k \in 1..Len(rows) |-> rows[k].Class]),
       SqlColumn("Methods", "int", [k \in 1..Len(rows) |-> rows[k].Methods]) >>

Documentation ==
    [file |-> "documentation_file",
     sheets |-> WriteSheets(<<>>,
        << [name |-> "Schema_Tables", frame |-> TablesFrame],
           [name |-> "Schema_Relations", frame |-> RelationsFrame],
           [name |-> "AST_Analysis", frame |-> AstFrame],
           [name |-> "Code_Structure", frame |-> StructureFrame(CodeStructureQuery)] >>)]

\* The faults of export_documentation: a database failure in get_tables_info (1) or
\* get_file_contents (2), or a failure in writing the workbook (3); the two tables
\* between the queries are built from literals.
SchemaFaults == {Null} \cup ((1..2) \X (Outcomes \ {"ok"})) \cup {<<3, "write_error">>}

DocumentationFiles(fs, fault) ==
    IF fault = Null THEN {Put(fs, "documentation_file", Documentation)}
    ELSE IF fault[1] = 3 THEN FailedWrite(fs, "documentation_file")
    ELSE {fs}

DocumentationErrors(fault) ==
    IF fault = Null THEN <<>>
    ELSE (IF fault[1] <= 2
          THEN QueryTrail("SchemaDocAnalyzer",
                          <<"Error getting tables info",
                            "Error getting file contents">>[fault[1]],
                          fault[2]).errors
          ELSE <<>>)
         \o <<ErrorRecord("SchemaDocAnalyzer", "Error exporting documentation")>>

ExportDocumentation ==
    \E fault \in SchemaFaults :
        \E leaked \in 0..Connected(fault, 2) :
            /\ openConns + leaked <= MaxConns
            /\ openConns' = openConns + leaked
            /\ artifact' \in DocumentationFiles(artifact, fault)
            /\ result' = [op |-> "export_documentation",
                          status |-> IF fault = Null THEN "ok" ELSE "error", rows |-> <<>>]
            /\ trail' = Failure(fault, DocumentationErrors(fault))
            /\ UNCHANGED <<classes, class_methods, class_usage_references,
                           method_usage_references, lastRun, dataframes, render>>

\* SchemaDocAnalyzer.run: export_documentation, and one more record on its failure.
SchemaRunErrors(fault) ==
    IF fault = Null THEN <<>>
    ELSE DocumentationErrors(fault)
         \o <<ErrorRecord("SchemaDocAnalyzer", "Schema documentation generation failed")>>

SchemaRun ==
    \E fault \in SchemaFaults :
        \E leaked \in 0..Connected(fault, 2) :
            /\ openConns + leaked <= MaxConns
            /\ openConns' = openConns + leaked
            /\ artifact' \in DocumentationFiles(artifact, fault)
            /\ result' = [op |-> "SchemaDocAnalyzer.run",
                          status |-> IF fault = Null THEN "ok" ELSE "error", rows |-> <<>>]
            /\ trail' = Failure(fault, SchemaRunErrors(fault))
            /\ UNCHANGED <<classes, class_methods, class_usage_references,
                           method_usage_references, lastRun, dataframes, render>>

\* run_all_analyses: analyze_methods (stage 1), analyze_class_hierarchy (2),
\* export_to_excel of the two tables (3), SchemaDocAnalyzer().run() (4) and
\* AuditAnalyzer().run() (5).  A fault is Null or <<stage, kind, inner>>, inner being
\* the fault of the run of stage 4 or 5.
AllFaults ==
    {Null} \cup {<<s, k, Null>> : s \in 1..2, k \in (Outcomes \ {"ok"})}
           \cup {<<3, "write_error", Null>>}
           \cup {<<4, f[2], f>> : f \in SchemaFaults \ {Null}}
           \cup {<<5, f[2], f>> : f \in AuditFaults \ {Null}}

\* As in export_audit_report, the rounding can raise when stage 5 is reached.
AllFault(fault, round) ==
    IF (fault = Null \/ (fault[1] = 5 /\ fault[3][1] = 4))
          /\ UsedIsObject(UsageStatisticsQuery) /\ round = "raises"
    THEN <<5, "type_error", <<3, "type_error">>>>
    ELSE fault

Exports ==
    << [name |-> "Methods", frame |-> MethodsFrame(AnalyzeMethodsQuery)],
       [name |-> "Hierarchy", frame |-> HierarchyFrame(AnalyzeClassHierarchyQuery)] >>

DartAnalysis ==
    [file |-> "dart_analysis_file", sheets |-> WriteSheets(<<>>, ProcessedFrames(Exports))]

AllErrors(fault) ==
    IF fault = Null THEN <<>>
    ELSE (CASE fault[1] \in 1..2 ->
                 QueryTrail("DartCodeAnalyzer",
                            <<"Error analyzing methods",
                              "Error analyzing class hierarchy">>[fault[1]],
                            fault[2]).errors
            [] fault[1] = 3 -> <<ErrorRecord("DartCodeAnalyzer", "Error exporting to Excel")>>
            [] fault[1] = 4 -> SchemaRunErrors(fault[3])
            [] fault[1] = 5 -> AuditRunErrors(fault[3]))
         \o <<ErrorRecord("DartCodeAnalyzer", "Analysis failed")>>

\* The steps run_all_analyses has started when it ends.
AllSteps(fault) ==
    SubSeq(<<"analyze_methods", "analyze_class_hierarchy", "export_to_excel",
             "SchemaDocAnalyzer.run", "AuditAnalyzer.run">>,
           1, IF fault = Null THEN 5 ELSE fault[1])

AllArtifact_AllOrNothing(fault) ==
    IF fault = Null
    THEN {Put(Put(Put(artifact, "dart_analysis_file", DartAnalysis),
                  "documentation_file", Documentation),
              "audit_report_file", AuditReport)}
    ELSE {artifact}

\* The files when the handler ends: each stage writes its own file, after the files
\* of the stages before it.
AllArtifact(fault) ==
    LET dart == Put(artifact, "dart_analysis_file", DartAnalysis)
        doc == Put(dart, "documentation_file", Documentation)
    IN  IF fault = Null THEN AuditFiles(doc, Null)
        ELSE CASE fault[1] \in 1..2 -> {artifact}
               [] fault[1] = 3 -> FailedWrite(artifact, "dart_analysis_file")
               [] fault[1] = 4 -> DocumentationFiles(dart, fault[3])
               [] fault[1] = 5 -> AuditFiles(doc, fault[3])

\* The queries of the five stages that have opened a connection.
AllConnected(fault) ==
    IF fault = Null THEN 7
    ELSE CASE fault[1] \in 1..2 -> Connected(<<fault[1], fault[2]>>, 2)
           [] fault[1] = 3 -> 2
           [] fault[1] = 4 -> 2 + Connected(fault[3], 2)
           [] fault[1] = 5 -> 4 + Connected(fault[3], 3)

\* main() constructs the analyzer, which tests the connection, and calls
\* run_all_analyses: it is the first operation of the process after that test.
RunAllAnalyses ==
    \E chosen \in AllFaults, round \in Rounds :
        LET fault == AllFault(chosen, round) IN
        \E leaked \in 0..AllConnected(fault) :
            /\ result.op \in {"none", "_test_db_connection"}
            /\ openConns + leaked <= MaxConns
            /\ openConns' = openConns + leaked
            /\ dataframes' = IF fault = Null \/ fault[1] >= 3 THEN Exports ELSE dataframes
            /\ artifact' \in AllArtifact(fault)
            /\ result' = [op |-> "run_all_analyses",
                          status |-> IF fault = Null THEN "ok" ELSE "error", rows |-> <<>>,
                          steps |-> AllSteps(fault)]
            /\ trail' = Failure(fault, AllErrors(fault))
            /\ lastRun' = IF fault = Null \/ (fault[1] = 5 /\ ClassesRan(fault[3]))
                          THEN ClassesRun ELSE lastRun
            /\ UNCHANGED <<classes, class_methods, class_usage_references,
                           method_usage_references, render>>

\* save_summary: generate_summary, then the text is written to the documentation
\* file.
SaveSummary ==
    \E outcome \in WriteOutcomes :
        /\ summary' = <<GenerateSummaryText(docs)>>
        /\ artifact' \in
              IF outcome = "ok"
              THEN {Put(artifact, "markdown_documentation_file",
                        [file |-> "markdown_documentation_file",
                         text |-> GenerateSummaryText(docs)])}
              ELSE FailedWrite(artifact, "markdown_documentation_file")
        /\ result' = [op |-> "save_summary",
                      status |-> IF outcome = "ok" THEN "ok" ELSE "error", rows |-> <<>>]
        /\ trail' = QueryTrail("DocAnalyzer", "Error saving documentation", outcome)
        /\ UNCHANGED <<lib_path, excluded_dirs, excluded_files, files, docs, visited,
                       lastDoc, scans>>

\* DocAnalyzer.run: scan_directory, then save_summary, and one more record on its
\* failure.
DocRun ==
    \E outcome \in WriteOutcomes :
        LET found == DocsAfterAll(docs, WalkDir(lib_path)) IN
        /\ scans < MaxScans
        /\ scans' = scans + 1
        /\ docs' = found
        /\ lastDoc' = LastDocAfterAll(lastDoc, WalkDir(lib_path))
        /\ visited' = visited \o WalkDir(lib_path)
        /\ summary' = <<GenerateSummaryText(found)>>
        /\ artifact' \in
              IF outcome = "ok"
              THEN {Put(artifact, "markdown_documentation_file",
                        [file |-> "markdown_documentation_file",
                         text |-> GenerateSummaryText(found)])}
              ELSE FailedWrite(artifact, "markdown_documentation_file")
        /\ result' = [op |-> "DocAnalyzer.run",
                      status |-> IF outcome = "ok" THEN "ok" ELSE "error", rows |-> <<>>]
        /\ trail' = [fault |-> outcome,
                     errors |-> IF outcome = "ok" THEN <<>>
                                ELSE QueryTrail("DocAnalyzer", "Error saving documentation",
                                                outcome).errors
                                     \o <<ErrorRecord("DocAnalyzer",
                                                      "Documentation analysis failed")>>]
        /\ UNCHANGED <<lib_path, excluded_dirs, excluded_files, files>>

\* ------------------------------------------------------- MermaidRenderer
\* A renderer after construction: no call yet, no page file, no open-request sent.
NoRender == [pc |-> "idle", calls |-> 0, title |-> Null, path |-> "", pages |-> <<>>,
             requests |-> <<>>, raised |-> FALSE, errors |-> <<>>]

\* The page files written so far are the domain of pages; a file is "open" (created
\* or truncated, nothing in it), "written" (the page in it, not closed yet), "partial"
\* (closed after a failed write) or "complete" (the page in it, closed).
FileAt(path) == IF path \in DOMAIN render.pages THEN render.pages[path] ELSE "absent"

Suffix_NoTitle(title) == ".html"

\* suffix = f"_{title}.html" if title else ".html": None and '' are both false.
Suffix(title) ==
    IF title # Null /\ title[1] # "" THEN "_" \o title[1] \o ".html" ELSE ".html"

\* os.path.join(self.output_dir, f"mermaid_{config.app_name}{suffix}")
TempFilePath(title) ==
    config.output_temp_dir \o "/" \o "mermaid_" \o config.app_name \o Suffix(title)

\* file_url = f'file://{os.path.abspath(temp_file_path)}': a relative path is taken
\* from the working directory of the process, /work here.
FileUrl(path) ==
    "file://" \o (IF SubSeq(path, 1, 1) = "/" THEN path ELSE "/work" \o "/" \o path)

\* except Exception as e: self.logger.error(...); raise
RenderFailed ==
    [render EXCEPT !.pc = "failed", !.raised = TRUE,
                   !.errors = Append(@, ErrorRecord("MermaidRenderer",
                                                    "Error rendering Mermaid diagram"))]

\* render(mermaid_code, title) is called: the page is built and the path computed.
RenderCall(title) ==
    /\ render.pc \in {"idle", "done", "failed"}
    /\ render.calls < MaxRenders
    /\ render' = [render EXCEPT !.pc = "opening", !.calls = @ + 1, !.title = title,
                                !.path = TempFilePath(title), !.raised = FALSE]
    /\ UNCHANGED <<dataframes, artifact>>

\* open(temp_file_path, 'w', encoding='utf-8')
RenderOpen ==
    /\ render.pc = "opening"
    /\ \E ok \in BOOLEAN :
          render' = IF ok
                    THEN [render EXCEPT !.pc = "writing",
                                        !.pages = (render.path :> "open") @@ @]
                    ELSE RenderFailed
    /\ UNCHANGED <<dataframes, artifact>>

\* temp_file.write(html_content); on a failure the with statement closes the file.
RenderWrite ==
    /\ render.pc = "writing"
    /\ \E ok \in BOOLEAN :
          render' = IF ok
                    THEN [render EXCEPT !.pc = "closing",
                                        !.pages = (render.path :> "written") @@ @]
                    ELSE [RenderFailed EXCEPT !.pages = (render.path :> "partial") @@ @]
    /\ UNCHANGED <<dataframes, artifact>>

\* The end of the with statement closes the file, which flushes what was written.
RenderClose ==
    /\ render.pc = "closing"
    /\ \E ok \in BOOLEAN :
          render' = IF ok
                    THEN [render EXCEPT !.pc = "browsing",
                                        !.pages = (render.path :> "complete") @@ @]
                    ELSE [RenderFailed EXCEPT !.pages = (render.path :> "partial") @@ @]
    /\ UNCHANGED <<dataframes, artifact>>

\* webbrowser.open(file_url), then the call returns.
RenderBrowse ==
    /\ render.pc = "browsing"
    /\ render' = [render EXCEPT !.pc = "done",
                                !.requests = Append(@, FileUrl(render.path))]
    /\ UNCHANGED <<dataframes, artifact>>

\* --------------------------------------------------------- specifications
AuditIdle ==
    /\ classes = <<>>
    /\ class_methods = <<>>
    /\ class_usage_references = EmptyBag
    /\ method_usage_references = EmptyBag
    /\ result = NoResult
    /\ openConns = 0
    /\ trail = NoTrail
    /\ lastRun = NoRun

ConfigIdle ==
    /\ pml = [kind |-> "missing", keys |-> {}]
    /\ config = Defaults
    /\ configState = "defaulted"

\* config.lib_dir written relatively, with ./, and absolutely.
LibDirs == {<<"l">>, <<".", "/", "l">>, <<"/", "p", "/", "l">>}

ExcludedDirLists ==
    {<<>>, << <<"l", "/", "g">> >>, << <<"l", "/", "m">>, <<"l", "/", "g">> >>}

ExcludedFileLists ==
    {<<>>, << <<".g", ".dart">> >>,
     << <<".freezed", ".dart">>, <<".g", ".dart">>, <<"_test", ".dart">> >>}

Documented == [readable |-> TRUE, content |-> <<"OPEN", " ", "x", " ", "CLOSE">>]
Undocumented == [readable |-> TRUE, content |-> <<"x">>]
Unreadable == [readable |-> FALSE, content |-> <<>>]
\* A block without inner text.
Blank == [readable |-> TRUE, content |-> <<"OPEN", " ", "CLOSE">>]

\* The file whose content the extraction specification draws.
Subject == <<"l", "/", "m", "/", "e", ".dart">>

Contents == UNION {[1..n -> Tokens] : n \in 0..MaxLen}

DocIdle ==
    /\ lib_path = <<"l">>
    /\ excluded_dirs = << <<"l", "/", "g">> >>
    /\ excluded_files = <<>>
    /\ files = [f \in FilePaths |-> Undocumented]
    /\ docs = <<>>
    /\ visited = <<>>
    /\ lastDoc = <<>>
    /\ scans = 0
    /\ summary = Null

OutIdle ==
    /\ dataframes = <<>>
    /\ artifact = Null
    /\ render = NoRender

\* The rows the specifications draw from.
MethodRows ==
    {MethodRow(c, n, 0, x) : c \in 1..3, n \in {"run", "stop"}, x \in {1, 9}}
        \cup {MethodRow(1, n, 0, 9) : n \in LifecycleMethods}
        \cup {MethodRow(1, "run", 1, 9)}

InitMethods ==
    /\ classes = ThreeClasses
    /\ class_methods = <<>>
    /\ class_usage_references = EmptyBag
    /\ method_usage_references = EmptyBag
    /\ result = NoResult
    /\ openConns = 0
    /\ trail = NoTrail
    /\ lastRun = NoRun
    /\ ConfigIdle
    /\ DocIdle
    /\ OutIdle

NextMethods ==
    /\ \/ \E row \in MethodRows : InsertMethod(row)
       \/ \E m \in 1..MaxMethods : InsertMethodUsage(m)
       \/ AnalyzeUnusedMethods
       \/ Finalize
    /\ UNCHANGED <<configVars, docVars, outVars>>

SpecMethods == InitMethods /\ [][NextMethods]_vars

InitEmpty == AuditIdle /\ ConfigIdle /\ DocIdle /\ OutIdle

\* One class at most has a method: method_count and avg_complexity of both kinds.
NextClasses ==
    /\ \/ (Len(classes) < Len(ThreeClasses) /\ InsertClass(ThreeClasses[Len(classes) + 1]))
       \/ \E c \in 1..MaxClasses : InsertClassUsage(c)
       \/ (class_methods = <<>> /\ InsertMethod(MethodRow(1, "run", 0, 9)))
       \/ AnalyzeUnusedClasses
       \/ Finalize
    /\ UNCHANGED <<configVars, docVars, outVars>>

SpecClasses == InitEmpty /\ [][NextClasses]_vars

NextStats ==
    /\ \/ InsertClass(ThreeClasses[1])
       \/ \E c \in 1..MaxClasses : InsertClassUsage(c)
       \/ InsertMethod(MethodRow(1, "run", 0, 9))
       \/ \E m \in 1..MaxMethods : InsertMethodUsage(m)
       \/ GetUsageStatistics
       \/ Finalize
    /\ UNCHANGED <<configVars, docVars, outVars>>

SpecStats == InitEmpty /\ [][NextStats]_vars

InitConfig ==
    /\ AuditIdle
    /\ pml \in Documents
    /\ config = [f \in DOMAIN Defaults |-> Null]
    /\ configState = "unbuilt"
    /\ DocIdle
    /\ OutIdle

NextConfig == NewAnalyzerConfig /\ UNCHANGED <<auditVars, docVars, outVars>>

SpecConfig == InitConfig /\ [][NextConfig]_vars

InitExtract ==
    /\ AuditIdle
    /\ ConfigIdle
    /\ lib_path \in LibDirs
    /\ excluded_dirs = << <<"l", "/", "g">> >>
    /\ excluded_files = <<>>
    /\ \E c \in Contents :
          files = [f \in FilePaths |->
                      IF f = Subject THEN [readable |-> TRUE, content |-> c]
                      ELSE Undocumented]
    /\ docs = <<>>
    /\ visited = <<>>
    /\ lastDoc = <<>>
    /\ scans = 0
    /\ summary = Null
    /\ OutIdle

NextExtract ==
    /\ ProcessFile(PathJoin(lib_path, Drop(Subject, 2)))
    /\ UNCHANGED <<auditVars, configVars, outVars>>

SpecExtract == InitExtract /\ [][NextExtract]_vars

InitScan ==
    /\ AuditIdle
    /\ ConfigIdle
    /\ lib_path \in LibDirs
    /\ excluded_dirs \in ExcludedDirLists
    /\ excluded_files \in ExcludedFileLists
    /\ \E bad \in SUBSET {<<"l", "/", "a", ".dart">>, Subject},
          blank \in SUBSET {<<"l", "/", "g", "x", "/", "d", ".dart">>} :
          files = [f \in FilePaths |->
                      IF f \in bad THEN Unreadable
                      ELSE IF f \in blank THEN Blank
                      ELSE IF f = <<"l", "/", "m", "/", "n", ".txt">> THEN Undocumented
                      ELSE Documented]
    /\ docs = <<>>
    /\ visited = <<>>
    /\ lastDoc = <<>>
    /\ scans = 0
    /\ summary = Null
    /\ OutIdle

NextScan ==
    /\ ScanDirectory
    /\ UNCHANGED <<auditVars, configVars, outVars>>

SpecScan == InitScan /\ [][NextScan]_vars

\* The records process_file can have appended: of the files of the tree that end with
\* .dart, each documented, visited in any order.
RecordPaths == {RelPath(f, <<"l">>) : f \in {p \in FilePaths : EndsWith(p, <<".dart">>)}}

RecordLists ==
    UNION {[1..n -> {[path |-> p, doc |-> <<"x">>] : p \in RecordPaths}] : n \in 0..MaxDocs}

InitSummary ==
    /\ AuditIdle
    /\ ConfigIdle
    /\ lib_path = <<"l">>
    /\ excluded_dirs = <<>>
    /\ excluded_files = <<>>
    /\ files = [f \in FilePaths |-> Documented]
    /\ docs \in RecordLists
    /\ visited = [k \in 1..Len(docs) |-> PathJoin(lib_path, docs[k].path)]
    /\ lastDoc = IF docs = <<>> THEN <<>> ELSE <<ExtractClaudeDoc(Documented.content)>>
    /\ scans = 0
    /\ summary = Null
    /\ OutIdle

NextSummary ==
    /\ GenerateSummary
    /\ UNCHANGED <<auditVars, configVars, outVars>>

SpecSummary == InitSummary /\ [][NextSummary]_vars

\* The class_methods rows the analyzer specification draws from: every flag value,
\* a lifecycle name, an annotated method, and classes of both files.
FlaggedRows ==
    {FlaggedMethodRow(2, "run", 0, <<1>>, <<0>>),
     FlaggedMethodRow(3, "stop", 0, <<0>>, <<1>>),
     FlaggedMethodRow(1, "run", 0, Null, Null),
     FlaggedMethodRow(1, "build", 0, <<1>>, <<1>>),
     FlaggedMethodRow(1, "run", 1, <<0>>, <<0>>),
     FlaggedMethodRow(1, "stop", 0, <<2>>, <<0>>)}

InitAnalyzers ==
    /\ classes = ThreeClasses
    /\ class_methods = <<>>
    /\ class_usage_references = EmptyBag
    /\ method_usage_references = EmptyBag
    /\ result = NoResult
    /\ openConns = 0
    /\ trail = NoTrail
    /\ lastRun = NoRun
    /\ ConfigIdle
    /\ DocIdle
    /\ OutIdle

NextAnalyzers ==
    /\ \/ \E row \in FlaggedRows : InsertMethod(row)
       \/ AnalyzeUnusedMethods
       \/ AnalyzeUnusedClasses
       \/ GetUsageStatistics
       \/ TestDbConnection
       \/ AnalyzeMethods
       \/ AnalyzeClassHierarchy
       \/ DartGetFileContents
       \/ GetTablesInfo
       \/ SchemaGetFileContents
       \/ Finalize
    /\ UNCHANGED <<configVars, docVars, outVars>>

SpecAnalyzers == InitAnalyzers /\ [][NextAnalyzers]_vars

\* The stores the export specification starts from: without methods, with a method
\* whose flags are NULL, and with two methods whose flags are 0 and 1.
ExportStores ==
    {<<>>,
     <<FlaggedMethodRow(1, "run", 0, Null, Null)>>,
     <<FlaggedMethodRow(2, "run", 0, <<1>>, <<0>>), FlaggedMethodRow(3, "stop", 0, <<0>>, <<1>>)>>}

\* A name of 31 characters, and two names that begin with it.
Name31 == "abcdefghijklmnopqrstuvwxyz01234"

\* A table with a bool column, and a table with a text longer than the widest column.
BoolFrame ==
    << [name |-> "flag", dtype |-> "bool", cells |-> <<BoolCell(TRUE), BoolCell(FALSE)>>] >>

WideFrame ==
    << [name |-> "note", dtype |-> "object",
        cells |-> <<TextCell(Name31 \o Name31), None>>] >>

\* The tables run_all_analyses exports, and tables under longer names.
ExportEntries ==
    {[name |-> "Methods", frame |-> MethodsFrame(AnalyzeMethodsQuery)],
     [name |-> "Hierarchy", frame |-> HierarchyFrame(AnalyzeClassHierarchyQuery)],
     [name |-> Name31, frame |-> BoolFrame],
     [name |-> Name31 \o "x", frame |-> WideFrame],
     [name |-> Name31 \o "y", frame |-> BoolFrame]}

ExportMaps ==
    {dfs \in UNION {[1..n -> ExportEntries] : n \in 0..MaxSheets} :
        \A i, j \in 1..Len(dfs) : i # j => dfs[i].name # dfs[j].name}

InitExport ==
    /\ classes = ThreeClasses
    /\ class_methods \in ExportStores
    /\ class_usage_references = EmptyBag
    /\ method_usage_references = EmptyBag
    /\ result = NoResult
    /\ openConns = 0
    /\ trail = NoTrail
    /\ lastRun = NoRun
    /\ ConfigIdle
    /\ DocIdle
    /\ dataframes \in ExportMaps
    /\ artifact = Null
    /\ render = NoRender

NextExport ==
    /\ ExportToExcel
    /\ UNCHANGED <<configVars, docVars>>

SpecExport == InitExport /\ [][NextExport]_vars

\* The titles of the render calls: none, the empty one and two names.
Titles == {Null, <<"">>, <<"flow">>, <<"classes">>}

\* pml.yaml with every key, or missing.
FullDocument == [kind |-> "mapping", keys |-> 1..Len(Fields)]

InitRender ==
    /\ AuditIdle
    /\ pml \in {[kind |-> "missing", keys |-> {}], FullDocument}
    /\ config = IF pml.kind = "missing" THEN Defaults ELSE AssignFrom(1, Defaults)
    /\ configState = IF pml.kind = "missing" THEN "defaulted" ELSE "loaded"
    /\ DocIdle
    /\ OutIdle

NextRender ==
    /\ \/ \E title \in Titles : RenderCall(title)
       \/ RenderOpen
       \/ RenderWrite
       \/ RenderClose
       \/ RenderBrowse
    /\ UNCHANGED <<auditVars, configVars, docVars>>

SpecRender == InitRender /\ [][NextRender]_vars

\* The stores the runs start from: with and without classes and methods.
RunStores ==
    {[classes |-> <<>>, class_methods |-> <<>>],
     [classes |-> ThreeClasses,
      class_methods |-> <<FlaggedMethodRow(2, "run", 0, <<1>>, <<0>>),
                          FlaggedMethodRow(3, "stop", 0, Null, <<1>>)>>]}

InitRuns ==
    /\ \E store \in RunStores :
          /\ classes = store.classes
          /\ class_methods = store.class_methods
    /\ class_usage_references = EmptyBag
    /\ method_usage_references = EmptyBag
    /\ result = NoResult
    /\ openConns = 0
    /\ trail = NoTrail
    /\ lastRun = NoRun
    /\ ConfigIdle
    /\ lib_path = <<"l">>
    /\ excluded_dirs = << <<"l", "/", "g">> >>
    /\ excluded_files = <<>>
    /\ files = [f \in FilePaths |->
                  IF f = <<"l", "/", "m", "/", "n", ".txt">> THEN Undocumented
                  ELSE Documented]
    /\ docs = <<>>
    /\ visited = <<>>
    /\ lastDoc = <<>>
    /\ scans = 0
    /\ summary = Null
    /\ OutIdle

\* The process that made the call ends and another starts: the analyzer objects, their
\* connections and their records are gone, the store and the files stay.  The next
\* process has the tables of run_all_analyses to export, or none.
ProcessExit ==
    /\ result.op # "none"
    /\ result' = NoResult
    /\ trail' = NoTrail
    /\ openConns' = 0
    /\ lastRun' = NoRun
    /\ docs' = <<>>
    /\ visited' = <<>>
    /\ lastDoc' = <<>>
    /\ scans' = 0
    /\ summary' = Null
    /\ dataframes' \in {<<>>, Exports}
    /\ UNCHANGED <<classes, class_methods, class_usage_references,
                   method_usage_references, configVars, lib_path, excluded_dirs,
                   excluded_files, files, artifact, render>>

\* Processes one after the other over the same store and output directories, each
\* making one call.
NextRuns ==
    \/ ProcessExit
    \/ Finalize /\ UNCHANGED <<configVars, docVars, outVars>>
    \/ /\ result.op = "none"
       /\ \/ AnalyzeUnusedMethods
          \/ TestDbConnection
          \/ DartGetFileContents
          \/ GetTablesInfo
       /\ UNCHANGED <<configVars, docVars, outVars>>
    \/ /\ result.op = "none"
       /\ \/ ExportAuditReport
          \/ AuditRun
          \/ ExportDocumentation
          \/ SchemaRun
          \/ RunAllAnalyses
          \/ ExportToExcel
       /\ UNCHANGED <<configVars, docVars>>
    \/ /\ result.op = "none"
       /\ \/ SaveSummary
          \/ DocRun
       /\ UNCHANGED <<classes, class_methods, class_usage_references,
                      method_usage_references, openConns, lastRun, dataframes, render,
                      configVars>>

SpecRuns == InitRuns /\ [][NextRuns]_vars

\* One DocAnalyzer instance over an unchanged source tree: scans, runs and summaries
\* in any order.
NextInstance ==
    \/ /\ \/ ScanDirectory
          \/ GenerateSummary
       /\ UNCHANGED <<auditVars, configVars, outVars>>
    \/ /\ \/ SaveSummary
          \/ DocRun
       /\ UNCHANGED <<classes, class_methods, class_usage_references,
                      method_usage_references, openConns, lastRun, dataframes, render,
                      configVars>>

SpecInstance == InitScan /\ [][NextInstance]_vars

\* ------------------------------------------------------------------ claims
MethodsResult == result.op = "analyze_unused_methods" /\ result.status = "ok"
ClassesResult == result.op = "analyze_unused_classes" /\ result.status = "ok"
StatsResult == result.op = "get_usage_statistics" /\ result.status = "ok"

\* C1: analyze_unused_methods returns exactly the methods without a row in
\* method_usage_references, not named build, initState, dispose or createState, and
\* not flagged as annotated: no row of a referenced, lifecycle-named or annotated
\* method, and each method meeting the three conditions exactly once.
C1_UnusedMethodsExact ==
    MethodsResult =>
        LET rows == result.rows
            Meets(m) ==
                /\ CopiesIn(m, method_usage_references) = 0
                /\ class_methods[m].method_name
                       \notin {"build", "initState", "dispose", "createState"}
                /\ class_methods[m].has_annotation # 1
        IN  /\ \A k \in 1..Len(rows) :
                /\ rows[k].method_id \in 1..Len(class_methods)
                /\ Meets(rows[k].method_id)
                /\ rows[k].method_name = class_methods[rows[k].method_id].method_name
            /\ \A m \in 1..Len(class_methods) :
                Meets(m) => Cardinality({k \in 1..Len(rows) : rows[k].method_id = m}) = 1

\* A result that keeps one method and leaves out an annotated one.
C1_Witness ==
    /\ MethodsResult
    /\ Len(result.rows) = 1
    /\ \E m \in 1..Len(class_methods) : class_methods[m].has_annotation = 1

\* C2: a class without a row in class_usage_references is in the result of
\* analyze_unused_classes; once one such row has been inserted for class c, the next
\* result leaves c out and keeps or leaves out every other class as the result before.
C2_UnusedClassesFollowUsage ==
    [][(AnalyzeUnusedClasses /\ result'.status = "ok") =>
          /\ \A c \in 1..Len(classes) :
                CopiesIn(c, class_usage_references) = 0 => c \in RowIds(result'.rows)
          /\ \A c \in 1..Len(classes) :
                (lastRun.ids # Null /\ lastRun.since = <<c>>) =>
                    /\ c \notin RowIds(result'.rows)
                    /\ \A d \in (1..Len(classes)) \ {c} :
                          d \in lastRun.ids[1] <=> d \in RowIds(result'.rows)]_vars

\* A result that follows the insert of one usage row of a class the result before held,
\* and still holds another class.
C2_Witness ==
    /\ ClassesResult
    /\ lastRun.between # Null
    /\ \E c \in 1..Len(classes) :
          /\ lastRun.between[1] = <<c>>
          /\ CopiesIn(c, class_usage_references) = 1
          /\ c \notin RowIds(result.rows)
    /\ Len(result.rows) > 0

\* C3: get_usage_statistics returns the rows 'Classes' and 'Methods', in each total the
\* number of rows of the table and used the number of them with at least one usage
\* row, so that used <= total, for every state of the store.
C3_StatsCountRows ==
    StatsResult =>
        /\ Len(result.rows) = 2
        /\ result.rows[1].category = "Classes"
        /\ result.rows[2].category = "Methods"
        /\ result.rows[1].total = Len(classes)
        /\ result.rows[2].total = Len(class_methods)
        /\ result.rows[1].used = <<Cardinality(UsedClasses)>>
        /\ result.rows[2].used = <<Cardinality(UsedMethods)>>
        /\ \A k \in 1..2 : result.rows[k].used[1] <= result.rows[k].total

\* C4: in a row with total > 0, usage_rate is used / total * 100 rounded to one
\* decimal (within half a tenth of it), between 0.0 and 100.0.
C4_UsageRateRounded ==
    StatsResult =>
        \A k \in 1..Len(result.rows) :
            LET row == result.rows[k] IN
            row.total > 0 =>
                /\ row.usage_rate # Null
                /\ row.used # Null
                /\ LET d == row.usage_rate[1] * row.total - 1000 * row.used[1]
                   IN  2 * d <= row.total /\ -2 * d <= row.total
                /\ row.usage_rate[1] >= 0
                /\ row.usage_rate[1] <= 1000

\* A rate that had to be rounded up: 2 of 3 classes used, 66.7.
C4_Witness ==
    /\ StatsResult
    /\ result.rows[1].total = 3
    /\ result.rows[1].used = <<2>>
    /\ result.rows[1].usage_rate = <<667>>

\* C5: in the rows of analyze_unused_methods, of two consecutive rows the earlier has
\* the greater complexity, or the same complexity and a (file path, class name,
\* method name) that is lexicographically smaller or equal.
C5_UnusedMethodsOrdered ==
    MethodsResult =>
        \A k \in 1..(Len(result.rows) - 1) :
            LET a == result.rows[k]
                b == result.rows[k + 1]
            IN  \/ a.cyclomatic_complexity > b.cyclomatic_complexity
                \/ /\ a.cyclomatic_complexity = b.cyclomatic_complexity
                   /\ \/ StrRank(a.file_name) < StrRank(b.file_name)
                      \/ /\ a.file_name = b.file_name
                         /\ StrRank(a.class_name) < StrRank(b.class_name)
                      \/ /\ a.file_name = b.file_name
                         /\ a.class_name = b.class_name
                         /\ StrRank(a.method_name) <= StrRank(b.method_name)

\* Two rows of the same complexity, the second inserted first, ordered by file path
\* against the order of their class names.
C5_Witness ==
    /\ MethodsResult
    /\ Len(result.rows) = 2
    /\ result.rows[1].cyclomatic_complexity = result.rows[2].cyclomatic_complexity
    /\ result.rows[1].method_id > result.rows[2].method_id
    /\ result.rows[1].file_name = "a.dart" /\ result.rows[1].class_name = "B"
    /\ result.rows[2].file_name = "b.dart" /\ result.rows[2].class_name = "A"

\* C7: when an analyzer operation has ended, normally or with an error, no connection
\* it opened is still open.
C7_NoConnectionLeftOpen ==
    result.op # "none" => openConns = 0

\* C6: constructing AnalyzerConfig never raises, and whenever loading the document
\* fails every field holds its compiled-in default.
C6_FailedLoadKeepsDefaults ==
    /\ configState \in {"unbuilt", "loaded", "defaulted"}
    /\ configState = "defaulted" => config = Defaults

\* The content of the file process_file is called on, the places of its markers, and
\* the text between the first opening marker and the first closing marker after it.
SubjectContent == files[Subject].content
Opens == {i \in 1..Len(SubjectContent) : SubjectContent[i] = "OPEN"}
Closes == {i \in 1..Len(SubjectContent) : SubjectContent[i] = "CLOSE"}
FirstOpen == CHOOSE i \in Opens : \A y \in Opens : i <= y
FirstClose == CHOOSE j \in Closes : j > FirstOpen /\ \A y \in Closes : y > FirstOpen => j <= y
FirstInner == SubSeq(SubjectContent, FirstOpen + 1, FirstClose - 1)

RECURSIVE Trimmed(_)
Trimmed(t) ==
    IF t # <<>> /\ Head(t) = " " THEN Trimmed(Tail(t))
    ELSE IF t # <<>> /\ t[Len(t)] = " " THEN Trimmed(SubSeq(t, 1, Len(t) - 1))
    ELSE t

\* C8: process_file on a file with exactly one well-formed block, whatever its inner
\* text, appends exactly one record, with the inner text trimmed and the path
\* relative to the source root; on a file without a block it appends none.
C8_OneBlockOneRecord ==
    visited # <<>> =>
        /\ (Cardinality(Opens) = 1 /\ Cardinality(Closes) = 1
                /\ \E i \in Opens : \E j \in Closes : i < j) =>
              /\ Len(docs) = Len(visited)
              /\ \A k \in 1..Len(docs) :
                    /\ docs[k].doc = Trimmed(FirstInner)
                    /\ docs[k].path = <<"m", "/", "e", ".dart">>
        /\ (~\E i \in Opens : \E j \in Closes : i < j) => docs = <<>>

\* C9: scan_directory never calls process_file on a file that does not end with
\* .dart, that ends with an excluded suffix, or that lies at any depth below a
\* directory whose path from the project root begins with an excluded prefix,
\* however the source root is written.
C9_ExcludedNeverVisited ==
    \A d \in DOMAIN SourceTree : \A i \in DOMAIN SourceTree[d].files :
        LET file == SourceTree[d].files[i]
            below(a) == d = a \/ StartsWith(d, a \o <<"/">>)
            excluded ==
                \/ ~EndsWith(file, <<".dart">>)
                \/ \E k \in DOMAIN excluded_files : EndsWith(file, excluded_files[k])
                \/ \E a \in DOMAIN SourceTree : \E k \in DOMAIN excluded_dirs :
                      below(a) /\ StartsWith(a, excluded_dirs[k])
        IN  excluded =>
                \A k \in 1..Len(visited) : Resolve(visited[k]) # PathJoin(d, file)

\* C10: on a content with two or more blocks extract_claude_doc returns the (trimmed)
\* inner text of the first block, from the first opening marker to the first closing
\* marker after it, and process_file appends at most one record a visit.
C10_FirstBlockOnly ==
    /\ Len(docs) <= Len(visited)
    /\ (visited # <<>>
          /\ \E i \in Opens : \E j \in Closes : \E k \in Opens : \E l \in Closes :
                i < j /\ j < k /\ k < l) =>
            /\ lastDoc = << <<Trimmed(FirstInner)>> >>
            /\ \A k \in 1..Len(docs) : docs[k].doc = Trimmed(FirstInner)

\* Two blocks with different inner texts, the first of them recorded.
C10_Witness ==
    /\ visited # <<>>
    /\ SubjectContent = <<"OPEN", "x", "CLOSE", "OPEN", " ", "CLOSE">>
    /\ Len(docs) = 1
    /\ docs[1].doc = <<"x">>

\* The lines of the generated document, the places of its level-3 headings and of its
\* level-4 entries, and the heading an entry stands under.
SummaryLines == summary[1]
Headings == {i \in 1..Len(SummaryLines) : SummaryLines[i].level = 3}
Entries == {i \in 1..Len(SummaryLines) : SummaryLines[i].level = 4}
HeadingOf(i) == CHOOSE h \in Headings : h < i /\ \A g \in Headings : g < i => g <= h

\* C11: generate_summary writes one level-3 heading per distinct directory of the
\* recorded paths, labelled Root for the paths without a directory, the headings in
\* lexicographic order of directory; every record has exactly one level-4 entry, under
\* the heading of its directory, the entries of a heading in ascending order of path.
C11_SummaryGrouped ==
    summary # Null =>
        /\ {SummaryLines[h].folder : h \in Headings} = {DirName(docs[k].path) : k \in 1..Len(docs)}
        /\ \A h, g \in Headings :
              h < g => TextBefore(SummaryLines[h].folder, SummaryLines[g].folder)
        /\ \A h \in Headings :
              SummaryLines[h].text = IF SummaryLines[h].folder = <<>> THEN <<"Root">>
                                     ELSE SummaryLines[h].folder
        /\ \A k \in 1..Len(docs) :
              Cardinality({i \in Entries : SummaryLines[i].rec = k}) = 1
        /\ \A i \in Entries :
              /\ SummaryLines[i].rec \in 1..Len(docs)
              /\ \E h \in Headings : h < i
              /\ SummaryLines[HeadingOf(i)].folder = DirName(docs[SummaryLines[i].rec].path)
              /\ SummaryLines[i].text = BaseName(docs[SummaryLines[i].rec].path)
        /\ \A i, j \in Entries :
              (i < j /\ HeadingOf(i) = HeadingOf(j)) =>
                  ~TextBefore(docs[SummaryLines[j].rec].path, docs[SummaryLines[i].rec].path)

\* A document of three records appended against the order of their paths, one of them
\* directly under the source root and two of one directory.
C11_Witness ==
    /\ summary # Null
    /\ Len(docs) = 3
    /\ docs[1].path = <<"m", "/", "e", ".g", ".dart">>
    /\ docs[2].path = <<"m", "/", "e", ".dart">>
    /\ docs[3].path = <<"a", ".dart">>
    /\ Cardinality(Headings) = 2
    /\ SummaryLines[4].text = <<"Root">>

\* C12: after one scan_directory the records are exactly those of the eligible
\* readable files that contain a block, one each: an unreadable file yields none and
\* stops nothing.
C12_ReadErrorSkipsOneFile ==
    scans = 1 =>
        LET HasBlock(c) == \E i, j \in 1..Len(c) : i < j /\ c[i] = "OPEN" /\ c[j] = "CLOSE"
            Eligible(f) ==
                /\ EndsWith(f, <<".dart">>)
                /\ ~\E k \in DOMAIN excluded_files : EndsWith(f, excluded_files[k])
                /\ ~\E k \in DOMAIN excluded_dirs : StartsWith(f, excluded_dirs[k])
            Due == {f \in FilePaths :
                      Eligible(f) /\ files[f].readable /\ HasBlock(files[f].content)}
        IN  /\ Len(docs) = Cardinality(Due)
            /\ \A f \in Due : \E k \in 1..Len(docs) : docs[k].path = RelPath(f, <<"l">>)

\* C13: no step in which an operation of AuditAnalyzer, DartCodeAnalyzer or
\* SchemaDocAnalyzer ends, successfully or not, changes the content of a table.
C13_AnalyzersReadOnly ==
    [][result'.op # "none" =>
          /\ classes' = classes
          /\ class_methods' = class_methods
          /\ class_usage_references' = class_usage_references
          /\ method_usage_references' = method_usage_references]_vars

\* A hierarchy listing of a store that holds methods, returned while a connection of
\* an earlier operation is still open.
C13_Witness ==
    /\ Len(class_methods) = MaxMethods
    /\ result.op = "analyze_class_hierarchy"
    /\ result.status = "ok"
    /\ Len(result.rows) = MaxMethods
    /\ openConns > 0

\* C17: analyze_class_hierarchy returns one row per class_methods row, lifecycle-named
\* and annotated methods included, ordered by file path, class name, method name;
\* is_async is 'async' for a flag of 1 and '' otherwise, is_static 'static' for a
\* flag of 1 and '' otherwise.
C17_HierarchyListsEveryMethod ==
    (result.op = "analyze_class_hierarchy" /\ result.status = "ok") =>
        LET rows == result.rows IN
        /\ Len(rows) = Len(class_methods)
        /\ \A m \in 1..Len(class_methods) :
              Cardinality({k \in 1..Len(rows) : rows[k].method_id = m}) = 1
        /\ \A k \in 1..Len(rows) :
              LET r == class_methods[rows[k].method_id] IN
              /\ rows[k].method_name = r.method_name
              /\ rows[k].class_name = classes[r.class_id].class_name
              /\ rows[k].is_async = IF r.is_async = <<1>> THEN "async" ELSE ""
              /\ rows[k].is_static = IF r.is_static = <<1>> THEN "static" ELSE ""
        /\ \A k \in 1..(Len(rows) - 1) :
              LET a == rows[k]
                  b == rows[k + 1]
              IN  \/ StrRank(a.file_name) < StrRank(b.file_name)
                  \/ /\ a.file_name = b.file_name
                     /\ StrRank(a.class_name) < StrRank(b.class_name)
                  \/ /\ a.file_name = b.file_name
                     /\ a.class_name = b.class_name
                     /\ StrRank(a.method_name) <= StrRank(b.method_name)

\* A listing that holds a lifecycle-named method and a method whose is_async flag is
\* neither 0 nor 1, against the order of insertion.
C17_Witness ==
    /\ result.op = "analyze_class_hierarchy"
    /\ result.status = "ok"
    /\ Len(result.rows) = 2
    /\ result.rows[1].method_name = "build"
    /\ result.rows[1].method_id = 2
    /\ result.rows[2].method_name = "stop"
    /\ class_methods[1].is_async = <<2>>
    /\ result.rows[2].is_async = ""

\* C21: the three counts analyze_class_hierarchy logs are the number of classes of the
\* store, the number of classes with a non-null widget_type and the number of classes
\* with a non-null framework_type, and the table returned is the listing of the query.
C21_StatisticsCountClasses ==
    (result.op = "analyze_class_hierarchy" /\ result.status = "ok") =>
        /\ result.stats.total_classes = Len(classes)
        /\ result.stats.widget_classes =
               Cardinality({c \in 1..Len(classes) : classes[c].widget_type # Null})
        /\ result.stats.framework_classes =
               Cardinality({c \in 1..Len(classes) : classes[c].framework_type # Null})
        /\ result.rows = AnalyzeClassHierarchyQuery

\* The workbook export_to_excel has written, and the data rows of a sheet and of a table.
Exported == result.op = "export_to_excel" /\ result.status = "ok"
Sheets == artifact["dart_analysis_file"].sheets
DataRows(columns) == IF columns = <<>> THEN 0 ELSE Len(columns[1].cells)

First31(name) == IF Len(name) <= 31 THEN name ELSE SubSeq(name, 1, 31)

\* C14: the workbook written by export_to_excel has one sheet per input table, named by
\* the first 31 characters of the table's name, with as many data rows as the table.
C14_OneSheetPerTable ==
    Exported =>
        /\ Len(Sheets) = Len(dataframes)
        /\ \A k \in 1..Len(dataframes) :
              \E i \in 1..Len(Sheets) :
                  /\ Sheets[i].title = First31(dataframes[k].name)
                  /\ DataRows(Sheets[i].columns) = Len(dataframes[k].frame[1].cells)

\* C15: in the workbook written by export_to_excel every cell of the is_async and
\* is_static columns of the Methods listing is 'Yes' or 'No', and no cell of any sheet
\* holds a missing value: each is the empty string.
C15_FlagsYesNo ==
    Exported =>
        /\ \A i \in 1..Len(Sheets) : \A c \in 1..Len(Sheets[i].columns) :
              \A j \in 1..Len(Sheets[i].columns[c].cells) :
                  LET cell == Sheets[i].columns[c].cells[j] IN
                  /\ ~Missing(cell)
                  /\ (Sheets[i].title = "Methods"
                        /\ Sheets[i].columns[c].header \in {"is_async", "is_static"})
                       => cell \in {TextCell("Yes"), TextCell("No"), TextCell("")}
        /\ \A k \in 1..Len(dataframes) : \A i \in 1..Len(Sheets) :
              (Len(dataframes) = 1 /\ Len(Sheets) = 1) =>
                  \A c \in 1..Len(dataframes[k].frame) :
                      \A j \in 1..Len(dataframes[k].frame[c].cells) :
                          Missing(dataframes[k].frame[c].cells[j])
                              => Sheets[i].columns[c].cells[j] = TextCell("")

\* C20: the width set for a column of a written sheet is the longer of the length of
\* its header and the longest text of its cells, capped at 50, also for a sheet
\* without data rows.
C20_WidthIsLongestCapped ==
    (Exported /\ Len(dataframes) = 1 /\ Len(Sheets) = 1) =>
        \A c \in 1..Len(dataframes[1].frame) :
            LET col == Preprocess(dataframes[1].frame)[c]
                lens == {Len(Str(col.cells[j])) : j \in 1..Len(col.cells)} \cup {Len(col.name)}
                longest == CHOOSE n \in lens : \A x \in lens : x <= n
            IN  /\ Sheets[1].widths[c] # Null
                /\ Sheets[1].widths[c] = <<IF longest > 50 THEN 50 ELSE longest>>

\* C19: get_usage_statistics raises an error instead of returning a table whenever the
\* classes table or the class_methods table is empty.
C19_RaisesWhenATableIsEmpty ==
    (result.op = "get_usage_statistics" /\ (classes = <<>> \/ class_methods = <<>>))
        => result.status = "error"

\* C19, as the code has it: get_usage_statistics fails on the computation of the rate
\* only when both tables are empty; a table it returns has the two rows, and in the
\* row of an empty table (total = 0) used and usage_rate are missing.
C19_EmptyTableGivesMissingRate ==
    result.op = "get_usage_statistics" =>
        /\ trail.fault = "type_error" => (classes = <<>> /\ class_methods = <<>>)
        /\ result.status = "ok" =>
              /\ Len(result.rows) = 2
              /\ \A k \in 1..2 :
                    result.rows[k].total = 0 =>
                        result.rows[k].used = Null /\ result.rows[k].usage_rate = Null

\* A table returned from a store with classes and without methods: the rate of the
\* classes is a number, that of the methods is missing.
C19_Witness ==
    /\ StatsResult
    /\ classes # <<>>
    /\ class_methods = <<>>
    /\ result.rows[1].usage_rate # Null
    /\ result.rows[2].total = 0
    /\ result.rows[2].usage_rate = Null

\* C18: render writes the page to <output_temp_dir>/mermaid_<app_name>_<title>.html
\* when a title is given (a title that is not empty) and to
\* <output_temp_dir>/mermaid_<app_name>.html otherwise; the open-request is sent only
\* once that file is completely written and closed, and for that file's path; when
\* writing the file fails no open-request is sent and the error is logged and raised.
C18_RenderWritesThenOpens ==
    [][/\ render'.pc # "idle" =>
            render'.path =
                IF render'.title \in {Null, <<"">>}
                THEN config.output_temp_dir \o "/mermaid_" \o config.app_name \o ".html"
                ELSE config.output_temp_dir \o "/mermaid_" \o config.app_name
                         \o "_" \o render'.title[1] \o ".html"
       /\ \A p \in DOMAIN render'.pages :
            (FileAt(p) # render'.pages[p]) => p = render.path
       /\ render'.requests # render.requests =>
            /\ FileAt(render.path) = "complete"
            /\ render'.pages = render.pages
            /\ render'.requests =
                   Append(render.requests,
                          "file://" \o (IF SubSeq(render.path, 1, 1) = "/" THEN ""
                                        ELSE "/work/") \o render.path)
       /\ (render'.pc = "failed" /\ render.pc # "failed") =>
            /\ render'.requests = render.requests
            /\ render'.raised
            /\ Len(render'.errors) = Len(render.errors) + 1
       /\ render.pc = "failed" => render'.pc = "opening"
      ]_vars

\* A call with the title 'flow' has returned: its page is complete, and the last
\* open-request is for it.
C18_Witness ==
    /\ render.pc = "done"
    /\ render.title = <<"flow">>
    /\ FileAt(render.path) = "complete"
    /\ render.requests # <<>>
    /\ render.requests[Len(render.requests)] = FileUrl(render.path)
    /\ ~render.raised

\* C16: after an operation of an analyzer in which the database or the writing of the
\* artifact has failed, the operation has raised (it has not returned normally) and
\* the trail holds an error record, each of level ERROR, the last one written by the
\* operation itself.
C16_FailuresLoggedAndRaised ==
    trail.fault \notin {"none", "ok"} =>
        /\ result.status = "error"
        /\ trail.errors # <<>>
        /\ \A i \in 1..Len(trail.errors) : trail.errors[i].level = "ERROR"
        /\ result.op \in {"export_audit_report", "AuditAnalyzer.run"}
              => trail.errors[Len(trail.errors)].logger = "AuditAnalyzer"
        /\ result.op \in {"export_documentation", "SchemaDocAnalyzer.run"}
              => trail.errors[Len(trail.errors)].logger = "SchemaDocAnalyzer"
        /\ result.op \in {"export_to_excel", "run_all_analyses"}
              => trail.errors[Len(trail.errors)].logger = "DartCodeAnalyzer"
        /\ result.op \in {"save_summary", "DocAnalyzer.run"}
              => trail.errors[Len(trail.errors)].logger = "DocAnalyzer"

\* run_all_analyses has failed in the writing of the audit report: export_audit_report,
\* AuditAnalyzer.run and run_all_analyses have each logged the failure.
C16_Witness ==
    /\ result.op = "run_all_analyses"
    /\ result.status = "error"
    /\ trail.fault = "write_error"
    /\ Len(trail.errors) = 3
    /\ trail.errors[1].message = "Error exporting audit report"
    /\ trail.errors[3].message = "Analysis failed"

\* The first key, in the order of assignment, whose access raises; one past the last
\* field when none does.
FirstFailure ==
    IF pml.kind \in {"missing", "unreadable", "invalid"} THEN 1
    ELSE CHOOSE i \in 1..(Len(Fields) + 1) :
            /\ i <= Len(Fields) => (i \notin pml.keys /\ Keys[i] # "logging.console")
            /\ \A j \in 1..(i - 1) : j \in pml.keys \/ Keys[j] = "logging.console"

\* C22: after _load_pml_config the fields that hold a value of the document are the
\* first n of the order of assignment, for some n; every field from the first missing
\* or unreachable key on holds its default; a document that lacks logging.console
\* only loads without a failure and leaves log_to_console at True.
C22_DocumentValuesFormPrefix ==
    configState # "unbuilt" =>
        /\ \E n \in 0..Len(Fields) :
              {i \in 1..Len(Fields) : config[Fields[i]] = DocumentValue(i)} = 1..n
        /\ \A i \in FirstFailure..Len(Fields) : config[Fields[i]] = Defaults[Fields[i]]
        /\ pml.keys = 1..(Len(Fields) - 1) =>
              /\ configState = "loaded"
              /\ config.log_to_console = "True"
              /\ \A i \in 1..(Len(Fields) - 1) : config[Fields[i]] = DocumentValue(i)

\* A document with the app and excluded keys, without analyzer.database and with the
\* output section: the first four fields are the document's, the output directories
\* the defaults.
C22_Witness ==
    /\ configState = "defaulted"
    /\ pml.keys = {1, 2, 3, 4, 8, 9, 10}
    /\ config.excluded_files = DocumentValue(4)
    /\ config.db_dir = Defaults.db_dir
    /\ config.output_doc_dir = Defaults.output_doc_dir

\* A step leaves a file as it was: absent, or with the content it had.
SameFile(f) ==
    /\ (f \in DOMAIN artifact') <=> (f \in DOMAIN artifact)
    /\ f \in DOMAIN artifact => artifact'[f] = artifact[f]

\* A step leaves a file written, with the content the store gives it.
Holds(f, content) == f \in DOMAIN artifact' /\ artifact'[f] = content

\* C23: run_all_analyses starts its steps in the order analyze_methods,
\* analyze_class_hierarchy, export_to_excel, SchemaDocAnalyzer.run, AuditAnalyzer.run;
\* a failure in a step raises out of it and that step is the last one started; the
\* files of the steps before it are written in full and the files of the steps after
\* it are as they were.
C23_PipelineStopsAtFirstFailure ==
    [][result'.op = "run_all_analyses" =>
          LET n == Len(result'.steps) IN
          /\ result'.steps = SubSeq(<<"analyze_methods", "analyze_class_hierarchy",
                                      "export_to_excel", "SchemaDocAnalyzer.run",
                                      "AuditAnalyzer.run">>, 1, n)
          /\ trail'.fault # "ok" <=> result'.status = "error"
          /\ result'.status = "ok" =>
                /\ n = 5
                /\ Holds("audit_report_file", AuditReport)
          /\ result'.status = "error" => n >= 1
          /\ (n > 3 \/ result'.status = "ok") => Holds("dart_analysis_file", DartAnalysis)
          /\ (n > 4 \/ result'.status = "ok") => Holds("documentation_file", Documentation)
          /\ n < 3 => SameFile("dart_analysis_file")
          /\ n < 4 => SameFile("documentation_file")
          /\ n < 5 => SameFile("audit_report_file")
          /\ SameFile("markdown_documentation_file")]_vars

\* The schema documentation run has failed in the first process: the dart analysis
\* file is written in full, the documentation file is damaged, there is no audit
\* file.
C23_Witness ==
    /\ result.op = "run_all_analyses"
    /\ result.status = "error"
    /\ Len(result.steps) = 4
    /\ DOMAIN artifact = {"dart_analysis_file", "documentation_file"}
    /\ artifact["dart_analysis_file"] = DartAnalysis
    /\ artifact["documentation_file"] # Documentation

\* The failures of the three queries of export_audit_report.
QueryFaults == {"connect_error", "query_error", "type_error"}

\* C24: when one of the three queries of export_audit_report fails, the call raises,
\* the first error recorded is that of the failing query, and no file of the output
\* directories is created or changed: the audit file of an earlier run is as it was.
C24_FailedQueryLeavesAuditFile ==
    [][(result'.op \in {"export_audit_report", "AuditAnalyzer.run"}
            /\ trail'.fault \in QueryFaults) =>
          /\ result'.status = "error"
          /\ artifact' = artifact
          /\ \E k \in 1..Len(trail'.errors) :
                /\ trail'.errors[k].message \in {"Error analyzing unused methods",
                                                  "Error analyzing unused classes",
                                                  "Error generating usage statistics"}
                /\ trail'.errors[k + 1].message = "Error exporting audit report"
                /\ \A j \in 1..(k - 1) :
                      trail'.errors[j].message = "Database connection error"]_vars

\* export_audit_report fails in a query of a process that finds the audit file of an
\* earlier process: the file still holds the report.
C24_Witness ==
    /\ result.op = "export_audit_report"
    /\ result.status = "error"
    /\ trail.fault = "query_error"
    /\ "audit_report_file" \in DOMAIN artifact
    /\ artifact["audit_report_file"] = AuditReport

\* The files a scan records: those the walk passes to process_file that can be read
\* and hold a block with a text in it.
Recorded ==
    LET walk == WalkDir(lib_path)
    IN  {walk[i] : i \in {j \in 1..Len(walk) :
                            /\ files[Resolve(walk[j])].readable
                            /\ Truthy(ExtractClaudeDoc(files[Resolve(walk[j])].content))}}

\* The level-4 entries of a summary that stand for a record of path p.
EntriesOf(text, ds, p) ==
    {i \in 1..Len(text) : text[i].level = 4 /\ ds[text[i].rec].path = p}

\* C25: docs is only appended to: after k scans of the instance (by scan_directory or
\* by run) every recorded file has exactly k records and docs holds nothing else, no
\* step shortens docs, and a summary generated then has k entries for each of them.
C25_RecordsAccumulate ==
    [][/\ Len(docs') >= Len(docs)
       /\ SubSeq(docs', 1, Len(docs)) = docs
       /\ Len(docs') = scans' * Cardinality(Recorded)
       /\ \A f \in Recorded :
             LET p == RelPath(f, lib_path) IN
             /\ Cardinality({k \in 1..Len(docs') : docs'[k].path = p}) = scans'
             /\ summary' # summary =>
                   Cardinality(EntriesOf(summary'[1], docs', p)) = scans']_vars

\* Two scans of a tree with documented files, then a summary: every recorded file has
\* two records and two entries.
C25_Witness ==
    /\ scans = 2
    /\ Recorded # {}
    /\ Len(docs) = 2 * Cardinality(Recorded)
    /\ summary # Null
    /\ \A f \in Recorded : Cardinality(EntriesOf(summary[1], docs, RelPath(f, lib_path))) = 2
====
